---- MODULE Spec2Model ----
(***************************************************************************)
(* Model of the nuclide data converters (Nwc2xml.py, Nubase12_2xml.py),    *)
(* the Nuclide entity with its validating setters, and the XML codec       *)
(* (Nuclide.add_to_xml_table / NuclideXml.parse_xml_entry).                *)
(*                                                                         *)
(* Python values are modelled as follows.                                  *)
(*   - a dict is a record; a list is a sequence;                           *)
(*   - a str that the code only compares or copies is a TLA+ string; a str *)
(*     that the code splits on whitespace is the sequence of its tokens;   *)
(*   - an object reference is an index into heap (0: the name is unbound); *)
(*   - a value that may be None, or a local name that may be unbound, is a *)
(*     sequence of length 0 (None / unbound) or 1.                         *)
(***************************************************************************)
EXTENDS Integers, Sequences, FiniteSets, TLC

VARIABLES
    pc,            \* "loop", "written", "crashed", "exited"
    line_number,   \* Nwc2xml.py:49, Nubase12_2xml.py:89
    first,         \* Nwc2xml.py:50, Nubase12_2xml.py:90
    data,          \* the output list: references into heap
    previous,      \* Nwc2xml.py:52 identity snapshot of the last accepted row
    isotope,       \* the current entity: reference into heap, 0 when unbound
    decay_mode,    \* Nwc2xml.py:92 local name, survives loop iterations
    heap,          \* the Nuclide objects created so far
    log,           \* diagnostics printed, in order
    outfile,       \* <<>> until written, then <<the serialized entities>>
    last,          \* what the last loop iteration did (history)
    ent,           \* the entity a caller holds: <<>> for none, else <<object>>
    elast,         \* the last operation on ent and how it ended (history)
    given,         \* the structure the last operation was handed (history)
    orig,          \* the entity handed to add_to_xml_table: <<object>>
    entry,         \* the nuclide element it made: <<>> until encoded
    decoded,       \* what NuclideXml made of the element: <<>> until decoded
    reencoded,     \* what add_to_xml_table made of the decoded entity
    parse_in,      \* the field handed to a parser of NuclideNb03
    parse_out,     \* <<>> until parsed, then <<what the parser gave>>
    lists,         \* the list objects created so far, by reference
    objs,          \* the entities created so far: references into lists
    rlast          \* the last operation on objs (history)

convVars == <<pc, line_number, first, data, previous, isotope, decay_mode,
              heap, log, outfile, last>>

entVars == <<ent, elast, given>>

xmlVars == <<orig, entry, decoded, reencoded>>

parseVars == <<parse_in, parse_out>>

refVars == <<lists, objs, rlast>>

vars == <<convVars, entVars, xmlVars, parseVars, refVars>>

\* What a converter run, an operation on the held entity and the codec leave
\* alone.
notConv == <<entVars, xmlVars, parseVars, refVars>>
notEnt == <<convVars, xmlVars, parseVars, refVars>>
notXml == <<convVars, entVars, parseVars, refVars>>

\* Number of input lines of a run.
MaxLines == 3

----------------------------------------------------------------------------
(* Generic helpers *)

Range(s) == {s[i] : i \in DOMAIN s}

Last(s) == s[Len(s)]

\* str.lower() on the tokens the inputs use.
Lower(t) ==
    CASE t = "S" -> "s"
      [] t = "MS" -> "ms"
      [] t = "XX" -> "xx"
      [] t = "EV" -> "ev"
      [] t = "KEV" -> "kev"
      [] t = "MEV" -> "mev"
      [] t = "eV" -> "ev"
      [] t = "keV" -> "kev"
      [] t = "MeV" -> "mev"
      [] t = "STABLE" -> "stable"
      [] t = "UNBOUND" -> "unbound"
      [] t = "AP" -> "ap"
      [] t = "LT" -> "lt"
      [] t = "LE" -> "le"
      [] t = "GT" -> "gt"
      [] t = "GE" -> "ge"
      [] t = "A" -> "a"
      [] t = "B-" -> "b-"
      [] t = "EP" -> "ep"
      [] t = "E2P" -> "e2p"
      [] t = "EA" -> "ea"
      [] OTHER -> t

----------------------------------------------------------------------------
(* Nuclide: time units (Nuclide.py:40-66) *)

short_time_units ==
    {"d", "h", "m", "s", "ms", "us", "ns", "ps", "fs", "as", "zs", "ys",
     "stbl", "p-unst", "n-unst", "?"}

long_time_units == {"Yy", "Zy", "Ey", "Py", "Ty", "Gy", "My", "ky", "y"}

\* Results of operations that may raise: exc is "" and val the result, or exc
\* is the exception class (val is then the object as the raise left it, for
\* the operations that change self before they raise).
Ok(v) == [exc |-> "", val |-> v]
Raise(e) == [exc |-> e, val |-> <<>>]
RaiseWith(e, v) == [exc |-> e, val |-> v]


\* A Python value handed to int(): an int, or a str.
PyInt(n) == [t |-> "int", n |-> n, s |-> ""]
PyStr(s) == [t |-> "str", n |-> 0, s |-> s]

\* int(str) on the decimal strings the inputs use; any other str raises ValueError.
IntStrings == {"-1", "0", "1", "2", "5"}

StrToInt(s) ==
    CASE s = "-1" -> 0 - 1
      [] s = "0" -> 0
      [] s = "1" -> 1
      [] s = "2" -> 2
      [] s = "5" -> 5

\* int(v)
int(v) ==
    IF v.t = "int" THEN Ok(v.n)
    ELSE IF v.s \in IntStrings THEN Ok(StrToInt(v.s))
    ELSE Raise("ValueError")

\* d.get(key) is None for some key of keys
LacksKey(d, keys) == \E k \in keys : k \notin DOMAIN d

----------------------------------------------------------------------------
(* Nuclide: the entity and its validating setters (Nuclide.py:99-275).     *)
(* An object is a record of its attributes; an attribute not yet assigned  *)
(* is absent from the record.                                              *)

mass_defect_keys == {"value", "uncertainity", "extrapolated"}
half_life_keys == {"value", "unit", "uncertainity", "relation", "extrapolated"}
gs_spin_keys == {"value", "extrapolated"}
decay_mode_keys == {"mode", "relation", "value", "uncertainity"}
isomer_keys == {"energy", "uncertainity", "extrapolated", "half_life", "decay_modes"}

\* Assigns attribute k of object self.
SetAttr(self, k, v) == (k :> v) @@ self

\* The Z setter without its sign check (Nuclide.py:142-143 removed).
Z_setter_NoSignCheck(self, Z) ==
    LET i == int(Z) IN
    IF i.exc = "ValueError" THEN Raise("ParameterError")
    ELSE Ok(SetAttr(self, "Z", i.val))

\* Nuclide.Z setter; self is the object, Z a Python value.
Z_setter(self, Z) ==
    LET i == int(Z) IN
    IF i.exc = "ValueError" THEN Raise("ParameterError")
    ELSE IF i.val < 0 THEN Raise("ParameterError")
    ELSE Ok(SetAttr(self, "Z", i.val))

\* Nuclide.A setter; reads self.Z.
A_setter(self, A) ==
    LET i == int(A) IN
    IF i.exc = "ValueError" THEN Raise("ParameterError")
    ELSE IF i.val < 1 /\ self.Z # 0 THEN Raise("ParameterError")
    ELSE Ok(SetAttr(self, "A", i.val))

\* Nuclide.mass_defect setter; md is <<>> for None, else <<dict>>. The
\* attribute becomes the empty dict (the record <<>>) or the dict itself.
mass_defect_setter(self, md) ==
    IF md = <<>> THEN Ok(SetAttr(self, "mass_defect", <<>>))
    ELSE IF LacksKey(md[1], mass_defect_keys) THEN Raise("ParameterError")
    ELSE Ok(SetAttr(self, "mass_defect", md[1]))

\* Nuclide.half_life setter.
half_life_setter(self, hl) ==
    IF hl = <<>> THEN Ok(SetAttr(self, "half_life", <<>>))
    ELSE IF LacksKey(hl[1], half_life_keys) THEN Raise("ParameterError")
    ELSE Ok(SetAttr(self, "half_life", hl[1]))

\* Nuclide.gs_spin setter.
gs_spin_setter(self, sp) ==
    IF sp = <<>> THEN Ok(SetAttr(self, "gs_spin", <<>>))
    ELSE IF LacksKey(sp[1], gs_spin_keys) THEN Raise("ParameterError")
    ELSE Ok(SetAttr(self, "gs_spin", sp[1]))

\* Nuclide.add_decay_mode
add_decay_mode(self, dm) ==
    IF LacksKey(dm, decay_mode_keys) THEN Raise("ParameterError")
    ELSE Ok([self EXCEPT !.decay_modes = Append(@, dm)])

\* Nuclide.decay_modes setter: empties the list, then adds the modes one by
\* one; a raise leaves the modes added before it.
RECURSIVE add_decay_modes(_, _)
add_decay_modes(self, modes) ==
    IF modes = <<>> THEN Ok(self)
    ELSE LET r == add_decay_mode(self, Head(modes)) IN
         IF r.exc # "" THEN RaiseWith(r.exc, self)
         ELSE add_decay_modes(r.val, Tail(modes))

decay_modes_setter(self, dms) ==
    LET emptied == SetAttr(self, "decay_modes", <<>>) IN
    IF dms = <<>> THEN Ok(emptied) ELSE add_decay_modes(emptied, dms[1])

\* Nuclide.add_isomer. The raise for a nested decay mode formats two fields
\* from one argument (Nuclide.py:264), which raises IndexError instead.
add_isomer(self, isomer) ==
    IF LacksKey(isomer, isomer_keys) THEN Raise("ParameterError")
    ELSE IF LacksKey(isomer.half_life, half_life_keys) THEN Raise("ParameterError")
    ELSE IF \E i \in DOMAIN isomer.decay_modes :
                LacksKey(isomer.decay_modes[i], decay_mode_keys)
         THEN Raise("IndexError")
    ELSE Ok([self EXCEPT !.isomers = Append(@, isomer)])

\* Nuclide.add_isomer_decay_mode; isomer_index is len(isomers) - 1 or an
\* index from 0. The raise names the undefined `isomer` (Nuclide.py:274).
add_isomer_decay_mode(self, isomer_index, dm) ==
    IF LacksKey(dm, decay_mode_keys) THEN Raise("NameError")
    ELSE LET n == Len(self.isomers)
             k == IF isomer_index < 0 THEN n + isomer_index + 1
                  ELSE isomer_index + 1
         IN  IF k < 1 \/ k > n THEN Raise("IndexError")
             ELSE Ok([self EXCEPT !.isomers[k].decay_modes = Append(@, dm)])

\* self.<attr> = x after the statements that gave r: nothing happens when
\* one of them raised; Z, A, the sub-records and the decay modes go through
\* their property setters, any other attribute is stored as it is.
Assign(r, attr, x) ==
    IF r.exc # "" THEN Raise(r.exc)
    ELSE CASE attr = "Z" -> Z_setter(r.val, x)
           [] attr = "A" -> A_setter(r.val, x)
           [] attr = "mass_defect" -> mass_defect_setter(r.val, x)
           [] attr = "half_life" -> half_life_setter(r.val, x)
           [] attr = "gs_spin" -> gs_spin_setter(r.val, x)
           [] attr = "decay_modes" -> decay_modes_setter(r.val, x)
           [] OTHER -> Ok(SetAttr(r.val, attr, x))

\* self.<attr> = parse(...), where the parser gave p: the parser runs, and
\* may raise, before the setter.
AssignParsed(r, attr, p) ==
    IF r.exc # "" THEN Raise(r.exc)
    ELSE IF p.exc # "" THEN Raise(p.exc)
    ELSE Assign(r, attr, <<p.val>>)

\* Nuclide.__init__: the setters in the order of the constructor; a raise
\* leaves no object.
Nuclide(Z, A, md, hl, sp, dms, isomers, comment) ==
    Assign(Assign(Assign(Assign(Assign(Assign(Assign(Assign(Ok(<<>>),
        "Z", Z),
        "A", A),
        "mass_defect", md),
        "half_life", hl),
        "gs_spin", sp),
        "decay_modes", dms),
        "isomers", IF isomers = <<>> THEN <<>> ELSE isomers[1]),
        "comment", IF comment = <<>> THEN "" ELSE comment[1])

----------------------------------------------------------------------------
(* NuclideNwc11 (Nuclide.py:559-643) *)

\* nwc_parse_half_life; half_life is the sequence of the whitespace tokens
\* of the field. value * 0.04562 multiplies a str by a float: TypeError,
\* which the code passes over, so the token stays as it is.
nwc_parse_half_life(half_life) ==
    LET low == [i \in DOMAIN half_life |-> Lower(half_life[i])]
        items == IF Len(low) = 2 THEN Append(low, "?") ELSE low
        unit == IF Len(items) = 3
                THEN CASE items[2] = "ev" -> "as"
                       [] items[2] = "kev" -> "zs"
                       [] items[2] = "mev" -> "ys"
                       [] OTHER -> items[2]
                ELSE ""
    IN
    IF Len(items) = 0
    THEN Ok([extrapolated |-> FALSE, value |-> "?", uncertainity |-> "?",
             unit |-> "?", relation |-> "?"])
    ELSE IF items[1] \in {"stable", "unbound"}
    THEN Ok([extrapolated |-> FALSE,
             value |-> IF items[1] = "stable" THEN "stable" ELSE "unstable",
             uncertainity |-> IF Len(items) > 1 THEN items[2] ELSE "",
             unit |-> "", relation |-> "="])
    ELSE IF Len(items) = 3
    THEN IF unit \notin short_time_units /\ unit \notin long_time_units
         THEN Raise("ParameterError")
         ELSE Ok([extrapolated |-> FALSE, value |-> items[1], unit |-> unit,
                  uncertainity |->
                      IF items[3] \in {"ap", "lt", "le", "gt", "ge"}
                      THEN "?" ELSE items[3],
                  relation |->
                      CASE items[3] = "ap" -> "~"
                        [] items[3] = "lt" -> "<"
                        [] items[3] = "le" -> "<="
                        [] items[3] = "gt" -> ">"
                        [] items[3] = "ge" -> ">="
                        [] OTHER -> "="])
    ELSE Raise("ParameterError")

\* NuclideNwc11.__init__
NuclideNwc11(Z, A, mass_defect, half_life, gs_spin, decay_modes, comment) ==
    AssignParsed(Nuclide(Z, A, <<mass_defect>>, <<>>, <<gs_spin>>,
                         <<decay_modes>>, <<>>, <<comment>>),
                 "half_life", nwc_parse_half_life(half_life))

----------------------------------------------------------------------------
(* NuclideNb03 (Nuclide.py:350-556).                                        *)
(* The mass-defect, half-life and isomer columns are sequences of           *)
(* whitespace tokens; a token written with a trailing '#' stands for the    *)
(* token and the mark. The decay-modes column is a sequence of characters;  *)
(* the glyphs U+2264 and U+2265 are the characters "<=" and ">=".           *)

\* Tokens that carry the extrapolation mark '#', and what replace('#', ' ')
\* followed by split() leaves of a token.
HashTokens == {"#", "1.5#", "1#", "50#"}

Unhash(t) ==
    CASE t = "#" -> <<>>
      [] t = "1.5#" -> <<"1.5">>
      [] t = "1#" -> <<"1">>
      [] t = "50#" -> <<"50">>
      [] OTHER -> <<t>>

RECURSIVE UnhashAll(_)
UnhashAll(tokens) ==
    IF tokens = <<>> THEN <<>>
    ELSE Unhash(Head(tokens)) \o UnhashAll(Tail(tokens))

\* s.count('#') > 0
HasHash(tokens) == \E i \in DOMAIN tokens : tokens[i] \in HashTokens

\* The tokens float() accepts, and the ones str.isnumeric() accepts.
FloatTokens == {"1.5", "0.2", "1", "2", "5", "50", "100"}
NumericTokens == {"1", "2", "5", "50", "100"}

\* NuclideNb03._parse_mass_defect: value and uncertainty are floats, written
\* here as the tokens they were read from. An empty field raises IndexError
\* at mass_defect[0], which the except clause does not catch.
_parse_mass_defect(mass_defect) ==
    LET extrapolated == HasHash(mass_defect)
        items == IF extrapolated THEN UnhashAll(mass_defect) ELSE mass_defect
    IN  IF Len(items) = 0 THEN Raise("IndexError")
        ELSE IF items[1] \notin FloatTokens THEN Raise("ParameterError")
        ELSE IF Len(items) = 2 /\ items[2] \notin FloatTokens
             THEN Raise("ParameterError")
        ELSE Ok([extrapolated |-> extrapolated, value |-> items[1],
                 uncertainity |-> IF Len(items) = 2 THEN items[2] ELSE "?"])

\* NuclideNb03._parse_half_life
_parse_half_life(half_life) ==
    LET extrapolated == HasHash(half_life)
        items == IF extrapolated THEN UnhashAll(half_life) ELSE half_life
    IN  IF Len(items) = 0
        THEN Ok([extrapolated |-> extrapolated, value |-> "?",
                 uncertainity |-> "?", unit |-> "?", relation |-> "?"])
        ELSE IF items[1] \in {"stbl", "p-unst", "n-unst"}
        THEN Ok([extrapolated |-> extrapolated,
                 value |-> IF items[1] = "stbl" THEN "stable" ELSE "unstable",
                 uncertainity |-> "", unit |-> "", relation |-> "="])
        ELSE IF Len(items) = 2 \/ Len(items) = 3
        THEN IF items[2] \notin short_time_units /\ items[2] \notin long_time_units
             THEN Raise("ParameterError")
             ELSE Ok([extrapolated |-> extrapolated, value |-> items[1],
                      unit |-> items[2],
                      uncertainity |-> IF Len(items) = 2 THEN "?" ELSE items[3],
                      relation |-> "="])
        ELSE Raise("ParameterError")

\* NuclideNb03._parse_gs_spin; a spin "x#" is written <<"x", "#">>.
_parse_gs_spin(gs_spin) ==
    [extrapolated |-> HasHash(gs_spin),
     value |-> IF HasHash(gs_spin) THEN UnhashAll(gs_spin) ELSE gs_spin]

(* Character strings *)

Relations == {"=", "~", ">", "<", "<=", ">="}

\* str.replace of the two-character substring a b by the characters repl.
RECURSIVE ReplacePair(_, _, _, _)
ReplacePair(s, a, b, repl) ==
    IF Len(s) < 2 THEN s
    ELSE IF s[1] = a /\ s[2] = b
         THEN repl \o ReplacePair(SubSeq(s, 3, Len(s)), a, b, repl)
         ELSE <<s[1]>> \o ReplacePair(Tail(s), a, b, repl)

\* str.split(sep): the pieces between the separators, empty ones included.
RECURSIVE SplitOn(_, _)
SplitOn(s, sep) ==
    IF \A i \in DOMAIN s : s[i] # sep THEN <<s>>
    ELSE LET k == CHOOSE i \in DOMAIN s :
                      s[i] = sep /\ \A j \in 1..(i - 1) : s[j] # sep
         IN  <<SubSeq(s, 1, k - 1)>> \o SplitOn(SubSeq(s, k + 1, Len(s)), sep)

\* str.split(): the whitespace-separated words.
Words(s) == SelectSeq(SplitOn(s, " "), LAMBDA w : w # <<>>)

\* str.count(c)
Count(s, c) == Cardinality({i \in DOMAIN s : s[i] = c})

\* re.search(r" \?", item) is not None
HasSpaceQuestion(s) == \E i \in 1..(Len(s) - 1) : s[i] = " " /\ s[i + 1] = "?"

\* str.lower() on the characters the inputs use.
LowerChar(c) ==
    CASE c = "A" -> "a"
      [] c = "B" -> "b"
      [] c = "E" -> "e"
      [] c = "F" -> "f"
      [] c = "G" -> "g"
      [] c = "L" -> "l"
      [] c = "P" -> "p"
      [] c = "S" -> "s"
      [] OTHER -> c

LowerChars(s) == [i \in DOMAIN s |-> LowerChar(s[i])]

\* The rewriting test with its second condition inverted: an expression is
\* given an "=" only when it already has one.
AddsEqualSign_Inverted(item) ==
    HasSpaceQuestion(item) /\ Count(item, "=") # 0

\* Nuclide.py:478-481: "mode ?" is given an "=" unless it already has one.
AddsEqualSign(item) ==
    HasSpaceQuestion(item) /\ Count(item, "=") = 0

\* Nuclide.py:473-492: one ';'-separated expression. re.split with a capture
\* group gives 2k+1 pieces for k relation characters; unpacking them into
\* three names raises ValueError unless k = 1. value[0] of an empty remainder
\* raises IndexError.
ParseDecayItem(item0) ==
    LET item == IF AddsEqualSign(item0)
                THEN ReplacePair(item0, " ", "?", <<"=", "?">>)
                ELSE item0
        rel == {i \in DOMAIN item : item[i] \in Relations}
    IN  IF Cardinality(rel) # 1 THEN Raise("ValueError")
        ELSE LET k == CHOOSE i \in rel : TRUE
                 value == Words(SubSeq(item, k + 1, Len(item)))
             IN  IF value = <<>> THEN Raise("IndexError")
                 ELSE Ok([mode |-> SubSeq(item, 1, k - 1),
                          relation |-> <<item[k]>>,
                          value |-> value[1],
                          uncertainity |-> IF Len(value) > 1 THEN value[2]
                                           ELSE <<"0">>])

\* The loop over the expressions with the entries put in front of the list
\* instead of appended to it.
RECURSIVE ParseDecayItems_Reversed(_)
ParseDecayItems_Reversed(items) ==
    IF items = <<>> THEN Ok(<<>>)
    ELSE LET r == ParseDecayItem(Head(items)) IN
         IF r.exc # "" THEN Raise(r.exc)
         ELSE LET rest == ParseDecayItems_Reversed(Tail(items)) IN
              IF rest.exc # "" THEN Raise(rest.exc)
              ELSE Ok(rest.val \o <<r.val>>)

RECURSIVE ParseDecayItems(_)
ParseDecayItems(items) ==
    IF items = <<>> THEN Ok(<<>>)
    ELSE LET r == ParseDecayItem(Head(items)) IN
         IF r.exc # "" THEN Raise(r.exc)
         ELSE LET rest == ParseDecayItems(Tail(items)) IN
              IF rest.exc # "" THEN Raise(rest.exc)
              ELSE Ok(<<r.val>> \o rest.val)

\* NuclideNb03._parse_decay_modes
_parse_decay_modes(decay_modes) ==
    LET s == ReplacePair(ReplacePair(decay_modes, "l", "e", <<"<=">>),
                         "g", "e", <<">=">>)
    IN  IF Words(s) = <<>>
        THEN Ok(<<[mode |-> <<"?">>, value |-> <<>>, relation |-> <<>>,
                   uncertainity |-> <<>>]>>)
        ELSE LET r == ParseDecayItems(SplitOn(s, ";")) IN
             IF r.exc = "ValueError" THEN Raise("ParameterError") ELSE r

\* NuclideNb03.__init__
NuclideNb03(Z, A, mass_defect, half_life, gs_spin, decay_modes, comment) ==
    Assign(AssignParsed(AssignParsed(AssignParsed(AssignParsed(
        Nuclide(Z, A, <<>>, <<>>, <<>>, <<>>, <<>>, <<>>),
        "mass_defect", _parse_mass_defect(mass_defect)),
        "half_life", _parse_half_life(half_life)),
        "gs_spin", Ok(_parse_gs_spin(gs_spin))),
        "decay_modes", _parse_decay_modes(decay_modes)),
        "comment", comment)

\* Nuclide.py:513-545: the measurement code of an isomer row.
IsomerCode(isomer_data) ==
    LET code == Last(isomer_data) IN
    IF Len(isomer_data) >= 3 /\ code \notin NumericTokens
    THEN CASE code = "MD" -> "Mass doublet"
           [] code = "RQ" -> "Reaction energy difference"
           [] code = "AD" -> "Alpha energy difference"
           [] code = "BD" -> "Beta energy difference"
           [] code = "p" -> "Proton decay"
           [] code = "XL" -> "L X-rays"
           [] code = "Nm" -> "Estimated value from Nilsson model"
           [] code = "EU" -> "Existence under discussion"
           [] code = "RN" -> "Proved not to exists"
           [] code = "&" ->
                  "Ground state and isomer ordering reversed compared to ENSDF"
           [] OTHER -> "Code is not documented"
    ELSE "Gamma spectometry"

\* Nuclide.py:500-555: the isomer dict of nb_add_isomer, from what the two
\* parsers gave; the comment code + " " + comment is the pair of its parts.
NbIsomer(isomer_data0, hl, dm, comment) ==
    LET extrapolated == HasHash(isomer_data0)
        isomer_data == IF extrapolated THEN UnhashAll(isomer_data0)
                       ELSE isomer_data0
    IN  IF hl.exc # "" THEN Raise(hl.exc)
        ELSE IF dm.exc # "" THEN Raise(dm.exc)
        ELSE IF Len(isomer_data) < 2 THEN Raise("ParameterError")
        ELSE Ok([energy |-> isomer_data[1], uncertainity |-> isomer_data[2],
                 extrapolated |-> extrapolated, half_life |-> hl.val,
                 decay_modes |-> dm.val,
                 comment |-> <<IsomerCode(isomer_data), comment>>])

\* self.add_isomer(result), where building result gave r
AddIsomerData(self, r) ==
    IF r.exc # "" THEN Raise(r.exc) ELSE add_isomer(self, r.val)

\* NuclideNb03.nb_add_isomer
nb_add_isomer(self, isomer_data, half_life, decay_modes, comment) ==
    AddIsomerData(self, NbIsomer(isomer_data, _parse_half_life(half_life),
                                 _parse_decay_modes(decay_modes), comment))

----------------------------------------------------------------------------
(* Nwc2xml.py: the wallet-card converter.                                   *)
(* A row is the record of the fields the loop extracts from one line whose  *)
(* columns are all present and whose A and Z parse as integers.             *)

\* The half-life column varies on the rows of the nuclide A = 1, Z = 1 only.
NwcRows ==
    {r \in [A : {0, 1}, Z : {0, 1}, isomer : BOOLEAN,
            d_mode : {"", "EP"}, d_relation : {""}, d_branch : {"100"},
            abundance : {<<>>},
            half_life : {<<"1", "S">>, <<"2", "MS">>, <<"1", "XX">>},
            spin : {"1/2+"}, isomer_excitation : {"50"}, mass : {"1000"},
            mass_error : {"5"}, extrapolated : {FALSE}, comment : {"ref"}] :
        (r.A = 1 /\ r.Z = 1) \/ r.half_life = <<"1", "S">>}

\* str.strip('%.') on the abundance tokens the inputs use.
StripPercent(t) == IF t = "50%" THEN "50" ELSE t

\* Nwc2xml.py:92-109: the decay_mode dict of a row whose mode code is not blank.
NwcDecayMode(row) ==
    LET d_mode == Lower(row.d_mode) IN
    [value |-> row.d_branch,
     uncertainity |-> "?",
     mode |-> CASE d_mode = "ep" -> "b+p"
                [] d_mode = "e2p" -> "b+2p"
                [] d_mode = "e3p" -> "b+3p"
                [] d_mode = "ea" -> "b+a"
                [] d_mode = "e2a" -> "b+2a"
                [] OTHER -> d_mode,
     relation |-> IF row.d_relation = "" THEN "="
                  ELSE IF row.d_relation \in {"@", "&"} THEN "~"
                  ELSE row.d_relation]

\* Nwc2xml.py:78-117: the decay_modes list of a row.
NwcDecayModes(row) ==
    LET stable_data ==
            IF Len(row.abundance) > 0
            THEN <<[mode |-> "is", value |-> StripPercent(row.abundance[1]),
                    relation |-> "=",
                    uncertainity |-> IF Len(row.abundance) > 1
                                     THEN row.abundance[2] ELSE ""]>>
            ELSE <<>>
        modes == IF row.d_mode # "" THEN Append(stable_data, NwcDecayMode(row))
                 ELSE stable_data
    IN  IF Len(modes) = 0
        THEN <<[value |-> "", uncertainity |-> "", mode |-> "?", relation |-> ""]>>
        ELSE modes

\* Nwc2xml.py:73-74
NwcMassDefect(row) ==
    [value |-> row.mass, uncertainity |-> row.mass_error,
     extrapolated |-> row.extrapolated]

\* Nwc2xml.py:76
NwcSpin(row) == [value |-> row.spin, extrapolated |-> FALSE]

\* Nwc2xml.py:119-120: the identity of a row.
NwcCurrent(row) ==
    [A |-> row.A, Z |-> row.Z, mass_defect |-> <<NwcMassDefect(row)>>,
     half_life |-> <<row.half_life>>, isomer |-> <<row.isomer>>]

\* The identity compared without the key 'isomer'.
NwcSame_IgnoresFlag(current, prev) ==
    /\ current.A = prev.A
    /\ current.Z = prev.Z
    /\ current.mass_defect = prev.mass_defect
    /\ current.half_life = prev.half_life

\* Nwc2xml.py:121-125
NwcSame(current, prev) ==
    /\ current.A = prev.A
    /\ current.Z = prev.Z
    /\ current.mass_defect = prev.mass_defect
    /\ current.half_life = prev.half_life
    /\ current.isomer = prev.isomer

\* Nwc2xml.py:137
NwcNewNuclide(current, prev) == current.A # prev.A \/ current.Z # prev.Z

\* The state a try block leaves: the exception raised ("" for none) and the
\* names and objects it has assigned by then.
Try(exc, d, f, iso, h) ==
    [exc |-> exc, data |-> d, first |-> f, isotope |-> iso, heap |-> h]

\* The try block after a method of the current isotope has returned or
\* raised r: the object is replaced by what the method made of it.
Updated(t, r) ==
    IF r.exc # "" THEN Try(r.exc, t.data, t.first, t.isotope, t.heap)
    ELSE Try("", t.data, t.first, t.isotope, [t.heap EXCEPT ![t.isotope] = r.val])

\* The try block after the output list has become d, first has been cleared
\* and a constructor has returned or raised r: isotope is bound to the new
\* object only when the constructor returned.
Created(d, r) ==
    IF r.exc # "" THEN Try(r.exc, d, FALSE, isotope, heap)
    ELSE Try("", d, FALSE, Len(heap) + 1, Append(heap, r.val))

\* Nwc2xml.py:149-155, 158-164: isomer_data, from what nwc_parse_half_life
\* gave.
NwcIsomerData(row, isomer_hl) ==
    IF isomer_hl.exc # "" THEN Raise(isomer_hl.exc)
    ELSE Ok([energy |-> row.isomer_excitation, uncertainity |-> "?",
             extrapolated |-> row.extrapolated, half_life |-> isomer_hl.val,
             decay_modes |-> NwcDecayModes(row), comment |-> row.comment])

\* Nwc2xml.py:128-130: additional decay mode of the isotope. dm is the
\* decay_mode name as the row left it: <<>> when never assigned.
NwcCase1(row, dm) ==
    IF isotope = 0 \/ dm = <<>> THEN Try("NameError", data, first, isotope, heap)
    ELSE Updated(Try("", data, first, isotope, heap),
                 add_decay_mode(heap[isotope], dm[1]))

\* Nwc2xml.py:131-134: additional decay mode of the last isomer.
NwcCase2(row, dm) ==
    IF isotope = 0 \/ dm = <<>> THEN Try("NameError", data, first, isotope, heap)
    ELSE LET isomer_index == Len(heap[isotope].isomers) - 1 IN
         Updated(Try("", data, first, isotope, heap),
                 add_isomer_decay_mode(heap[isotope], isomer_index, dm[1]))

\* Nwc2xml.py:143-148, 168-173: finalize the current isotope unless this is
\* the first, then construct the new one.
NwcNewIsotope(row) ==
    IF ~first /\ isotope = 0 THEN Try("NameError", data, first, isotope, heap)
    ELSE Created(IF ~first THEN Append(data, isotope) ELSE data,
                 NuclideNwc11(PyInt(row.Z), PyInt(row.A), NwcMassDefect(row),
                              row.half_life, NwcSpin(row), NwcDecayModes(row),
                              row.comment))

\* Nwc2xml.py:149-156, 158-165: parse the half-life again and add the row as
\* an isomer of the isotope that t left current; nothing more happens when
\* the statements that gave t raised.
NwcAddIsomer(row, t) ==
    IF t.exc # "" THEN t
    ELSE IF t.isotope = 0
    THEN Try("NameError", t.data, t.first, t.isotope, t.heap)
    ELSE Updated(t, AddIsomerData(t.heap[t.isotope],
                        NwcIsomerData(row, nwc_parse_half_life(row.half_life))))

\* Nwc2xml.py:137-156: an isomer row of a new nuclide.
NwcCase3a(row) == NwcAddIsomer(row, NwcNewIsotope(row))

\* Nwc2xml.py:157-165: an isomer row of the current nuclide.
NwcCase3b(row) == NwcAddIsomer(row, Try("", data, first, isotope, heap))

\* Nwc2xml.py:166-173
NwcCase4(row) == NwcNewIsotope(row)

\* Nwc2xml.py:128-173: which branch a row takes.
NwcCase(row) ==
    LET current == NwcCurrent(row)
        same == NwcSame(current, previous)
    IN  IF same /\ ~row.isomer THEN "1"
        ELSE IF same /\ row.isomer THEN "2"
        ELSE IF row.isomer
             THEN IF NwcNewNuclide(current, previous) THEN "3a" ELSE "3b"
             ELSE "4"

\* The entities of the output list, as add_to_xml_table reads them when the
\* table is written (Nwc2xml.py:191-193, Nubase12_2xml.py:128-130).
Serialized(d, h) == [i \in DOMAIN d |-> h[d[i]]]

\* No entity is held and no element is being encoded or decoded: the state
\* of the parts of the program a converter run does not touch.
EntIdle ==
    /\ ent = <<>>
    /\ elast = [op |-> "none", Z |-> <<>>, A |-> <<>>, exc |-> ""]
    /\ given = <<>>

XmlIdle ==
    /\ orig = <<>>
    /\ entry = <<>>
    /\ decoded = <<>>
    /\ reencoded = <<>>

\* No field is being parsed, and no list object has been created.
ParseIdle ==
    /\ parse_in = <<>>
    /\ parse_out = <<>>

RefIdle ==
    /\ lists = <<>>
    /\ objs = <<>>
    /\ rlast = [op |-> "none", obj |-> 0]

\* Nwc2xml.py:49-53
NwcInit ==
    /\ pc = "loop"
    /\ line_number = 0
    /\ first = TRUE
    /\ data = <<>>
    /\ previous = [A |-> 0, Z |-> 0, mass_defect |-> <<>>, half_life |-> <<>>,
                   isomer |-> <<>>]
    /\ isotope = 0
    /\ decay_mode = <<>>
    /\ heap = <<>>
    /\ log = <<>>
    /\ outfile = <<>>
    /\ last = [case |-> "init", exc |-> "", row |-> <<>>]
    /\ EntIdle
    /\ ParseIdle
    /\ RefIdle
    /\ XmlIdle

\* Nwc2xml.py:54-186: one iteration of the loop, for a line that has all its
\* columns: field extraction, the try block and its handlers.
NwcLine(row) ==
    /\ pc = "loop"
    /\ line_number < MaxLines
    /\ LET dm == IF row.d_mode # "" THEN <<NwcDecayMode(row)>> ELSE decay_mode
           case == NwcCase(row)
           t == CASE case = "1" -> NwcCase1(row, dm)
                  [] case = "2" -> NwcCase2(row, dm)
                  [] case = "3a" -> NwcCase3a(row)
                  [] case = "3b" -> NwcCase3b(row)
                  [] OTHER -> NwcCase4(row)
       IN  /\ line_number' = line_number + 1
           /\ decay_mode' = dm
           /\ data' = t.data
           /\ first' = t.first
           /\ isotope' = t.isotope
           /\ heap' = t.heap
           /\ last' = [case |-> case, exc |-> t.exc, row |-> <<row>>]
           /\ previous' = IF t.exc = "" THEN NwcCurrent(row) ELSE previous
           /\ log' = IF t.exc \in {"ParameterError", "IndexError"}
                     THEN Append(log, [line |-> line_number + 1, exc |-> t.exc])
                     ELSE log
           \* the ParameterError handler formats isotope: NameError when the
           \* name is unbound; the IndexError handler exits; any other
           \* exception is not caught
           /\ pc' = CASE t.exc = "" -> "loop"
                      [] t.exc = "ParameterError" ->
                             IF t.isotope = 0 THEN "crashed" ELSE "loop"
                      [] t.exc = "IndexError" ->
                             IF t.isotope = 0 THEN "crashed" ELSE "exited"
                      [] OTHER -> "crashed"
           /\ UNCHANGED outfile
    /\ UNCHANGED notConv

\* Nwc2xml.py:59,62,70: a line too short for column 4, 34 or 114 raises
\* IndexError outside the try block: the run ends with a traceback.
NwcShortLine ==
    /\ pc = "loop"
    /\ line_number < MaxLines
    /\ line_number' = line_number + 1
    /\ pc' = "crashed"
    /\ last' = [case |-> "short", exc |-> "IndexError", row |-> <<>>]
    /\ UNCHANGED <<first, data, previous, isotope, decay_mode, heap, log, outfile>>
    /\ UNCHANGED notConv

\* Nwc2xml.py:57-58: int() of a blank or non-numeric A or Z column raises
\* ValueError outside the try block: the run ends with a traceback.
NwcBadNumber ==
    /\ pc = "loop"
    /\ line_number < MaxLines
    /\ line_number' = line_number + 1
    /\ pc' = "crashed"
    /\ last' = [case |-> "number", exc |-> "ValueError", row |-> <<>>]
    /\ UNCHANGED <<first, data, previous, isotope, decay_mode, heap, log, outfile>>
    /\ UNCHANGED notConv

\* Nwc2xml.py:188-193: the input has ended; the table is written from data.
NwcEnd ==
    /\ pc = "loop"
    /\ pc' = "written"
    /\ outfile' = <<Serialized(data, heap)>>
    /\ last' = [case |-> "end", exc |-> "", row |-> <<>>]
    /\ UNCHANGED <<line_number, first, data, previous, isotope, decay_mode,
                   heap, log>>
    /\ UNCHANGED notConv

NwcNext ==
    \/ \E row \in NwcRows : NwcLine(row)
    \/ NwcShortLine
    \/ NwcBadNumber
    \/ NwcEnd

SpecNwc == NwcInit /\ [][NwcNext]_vars

----------------------------------------------------------------------------
(* Nubase12_2xml.py: the NuBase12 converter.                                *)
(* A row is the record of the fields the loop extracts from one line that   *)
(* has its column 7 and whose A and Z parse as integers.                    *)

NbGoodMassDefect == <<"1.5", "0.2">>
NbGoodIsomerData == <<"50", "5">>
NbGoodHalfLife == <<"1", "s">>
NbGoodDecayModes == <<"A", "=", "1", "0", "0">>

\* The number of columns of a row that are blank or malformed.
NbDefects(r) ==
    (IF r.mass_defect = NbGoodMassDefect THEN 0 ELSE 1)
    + (IF r.isomer_data = NbGoodIsomerData THEN 0 ELSE 1)
    + (IF r.half_life = NbGoodHalfLife THEN 0 ELSE 1)
    + (IF r.decay_modes = NbGoodDecayModes THEN 0 ELSE 1)

\* Rows with every column well formed, and rows of the nuclide A = 1, Z = 1
\* with one column blank or malformed.
NbRows ==
    {r \in [A : {0, 1}, Z : {0, 1}, isomer : BOOLEAN,
            mass_defect : {NbGoodMassDefect, <<>>},
            isomer_data : {NbGoodIsomerData, <<>>},
            half_life : {NbGoodHalfLife, <<"1", "Xy">>},
            decay_modes : {NbGoodDecayModes, <<"A">>},
            gs_spin : {<<"1/2+">>}, comment : {"ref"}] :
        \/ NbDefects(r) = 0
        \/ r.A = 1 /\ r.Z = 1 /\ NbDefects(r) = 1}

\* Nubase12_2xml.py:105-111: finalize the current isotope unless this is the
\* first, then construct the new one.
NbNewIsotope(row) ==
    IF ~first /\ isotope = 0 THEN Try("NameError", data, first, isotope, heap)
    ELSE Created(IF ~first THEN Append(data, isotope) ELSE data,
                 NuclideNb03(PyInt(row.Z), PyInt(row.A), row.mass_defect,
                             row.half_life, row.gs_spin,
                             LowerChars(row.decay_modes), row.comment))

\* Nubase12_2xml.py:112-114
NbAddIsomer(row) ==
    IF isotope = 0 THEN Try("NameError", data, first, isotope, heap)
    ELSE Updated(Try("", data, first, isotope, heap),
                 nb_add_isomer(heap[isotope], row.isomer_data, row.half_life,
                               LowerChars(row.decay_modes), row.comment))

\* Nubase12_2xml.py:89-91
NbInit ==
    /\ pc = "loop"
    /\ line_number = 0
    /\ first = TRUE
    /\ data = <<>>
    /\ previous = [A |-> 0, Z |-> 0, mass_defect |-> <<>>, half_life |-> <<>>,
                   isomer |-> <<>>]
    /\ isotope = 0
    /\ decay_mode = <<>>
    /\ heap = <<>>
    /\ log = <<>>
    /\ outfile = <<>>
    /\ last = [case |-> "init", exc |-> "", row |-> <<>>]
    /\ EntIdle
    /\ ParseIdle
    /\ RefIdle
    /\ XmlIdle

\* Nubase12_2xml.py:92-122: one iteration of the loop, for a line that has
\* its columns: field extraction, the try block and its handler.
NbLine(row) ==
    /\ pc = "loop"
    /\ line_number < MaxLines
    /\ LET t == IF row.isomer THEN NbAddIsomer(row) ELSE NbNewIsotope(row)
       IN  /\ line_number' = line_number + 1
           /\ data' = t.data
           /\ first' = t.first
           /\ isotope' = t.isotope
           /\ heap' = t.heap
           /\ last' = [case |-> IF row.isomer THEN "isomer" ELSE "gs",
                       exc |-> t.exc, row |-> <<row>>]
           /\ log' = IF t.exc = "ParameterError"
                     THEN Append(log, [line |-> line_number + 1, exc |-> t.exc])
                     ELSE log
           \* the handler formats isotope: NameError when the name is
           \* unbound; no other exception is caught
           /\ pc' = CASE t.exc = "" -> "loop"
                      [] t.exc = "ParameterError" ->
                             IF t.isotope = 0 THEN "crashed" ELSE "loop"
                      [] OTHER -> "crashed"
           /\ UNCHANGED <<previous, decay_mode, outfile>>
    /\ UNCHANGED notConv

\* Nubase12_2xml.py:97: a line too short for column 7 raises IndexError
\* outside the try block: the run ends with a traceback.
NbShortLine ==
    /\ pc = "loop"
    /\ line_number < MaxLines
    /\ line_number' = line_number + 1
    /\ pc' = "crashed"
    /\ last' = [case |-> "short", exc |-> "IndexError", row |-> <<>>]
    /\ UNCHANGED <<first, data, previous, isotope, decay_mode, heap, log, outfile>>
    /\ UNCHANGED notConv

\* Nubase12_2xml.py:95-96: int() of a blank or non-numeric A or Z column
\* raises ValueError outside the try block.
NbBadNumber ==
    /\ pc = "loop"
    /\ line_number < MaxLines
    /\ line_number' = line_number + 1
    /\ pc' = "crashed"
    /\ last' = [case |-> "number", exc |-> "ValueError", row |-> <<>>]
    /\ UNCHANGED <<first, data, previous, isotope, decay_mode, heap, log, outfile>>
    /\ UNCHANGED notConv

\* Nubase12_2xml.py:125-130: the input has ended; the table is written.
NbEnd ==
    /\ pc = "loop"
    /\ pc' = "written"
    /\ outfile' = <<Serialized(data, heap)>>
    /\ last' = [case |-> "end", exc |-> "", row |-> <<>>]
    /\ UNCHANGED <<line_number, first, data, previous, isotope, decay_mode,
                   heap, log>>
    /\ UNCHANGED notConv

NbNext ==
    \/ \E row \in NbRows : NbLine(row)
    \/ NbShortLine
    \/ NbBadNumber
    \/ NbEnd

SpecNb == NbInit /\ [][NbNext]_vars

----------------------------------------------------------------------------
(* The XML codec: Nuclide.add_to_xml_table and NuclideXml (Nuclide.py:277-  *)
(* 347, 645-733). str() and getAttribute change the Python type of a value, *)
(* so in this part a dict value is tagged with its type: PyStr, PyInt or    *)
(* PyBool. An element is the record of its attributes (strings) and of its  *)
(* children; text content is a string.                                      *)

PyBool(b) == [t |-> "bool", n |-> IF b THEN 1 ELSE 0, s |-> ""]

\* str(int) on the integers the inputs use.
IntToStr(n) ==
    CASE n = 0 - 1 -> "-1"
      [] n = 0 -> "0"
      [] n = 1 -> "1"
      [] n = 2 -> "2"
      [] n = 5 -> "5"

\* str(value)
str(v) ==
    CASE v.t = "str" -> v.s
      [] v.t = "int" -> IntToStr(v.n)
      [] v.t = "bool" -> IF v.n = 1 THEN "True" ELSE "False"

\* Nuclide._element[Z] (Nuclide.py:73-94) for the Z the inputs use.
element(Z) ==
    CASE Z = 0 -> "n"
      [] Z = 1 -> "H"
      [] Z = 2 -> "He"
      [] Z = 5 -> "B"

\* for key, value in d.items(): e.setAttribute(key, str(value))
SetAttributes(d) == [k \in DOMAIN d |-> str(d[k])]

\* Nuclide.py:306-312, 318-324: the decay children of a decay_modes element
DecayElements(modes) == [i \in DOMAIN modes |-> SetAttributes(modes[i])]

\* Nuclide.py:315-334: the isomer element of one isomeric state
IsomerElement(state) ==
    [energy |-> str(state.energy),
     uncertainity |-> str(state.uncertainity),
     extrapolated |-> str(state.extrapolated),
     half_life |-> SetAttributes(state.half_life),
     decay_modes |-> DecayElements(state.decay_modes),
     comment |-> state.comment]

\* Nuclide.add_to_xml_table: the nuclide element appended to the root. The
\* id attribute str(self) is the pair of its two parts; the isomers child is
\* <<>> when absent, else <<its isomer children>>.
add_to_xml_table(self) ==
    [Z |-> IntToStr(self.Z),
     A |-> IntToStr(self.A),
     id |-> <<IntToStr(self.A), element(self.Z)>>,
     element |-> element(self.Z),
     mass_defect |-> SetAttributes(self.mass_defect),
     half_life |-> SetAttributes(self.half_life),
     spin |-> SetAttributes(self.gs_spin),
     decay_modes |-> DecayElements(self.decay_modes),
     isomers |-> IF Len(self.isomers) > 0
                 THEN <<[i \in DOMAIN self.isomers |->
                            IsomerElement(self.isomers[i])]>>
                 ELSE <<>>,
     comment |-> self.comment]

\* e.getAttribute(attr): always a str, empty when the attribute is absent
getAttribute(e, attr) == IF attr \in DOMAIN e THEN PyStr(e[attr]) ELSE PyStr("")

\* data = {}; for attr in attrs: data[attr] = e.getAttribute(attr)
ReadAttributes(e, attrs) == [a \in attrs |-> getAttribute(e, a)]

\* Nuclide.py:696-704, 722-729: the dicts of the decay children
ReadDecays(decay_modes) ==
    [i \in DOMAIN decay_modes |->
        ReadAttributes(decay_modes[i], {"mode", "value", "relation", "uncertainity"})]

\* Nuclide.py:709-730: i_data of one isomer element. Its decay modes are
\* read from nuclide.getElementsByTagName("decay_modes")[0], the first
\* decay_modes element of the nuclide in document order.
ReadIsomer(nuclide, isomer) ==
    [energy |-> getAttribute(isomer, "energy"),
     extrapolated |-> getAttribute(isomer, "extrapolated"),
     uncertainity |-> getAttribute(isomer, "uncertainity"),
     half_life |-> ReadAttributes(isomer.half_life, half_life_keys),
     decay_modes |-> ReadDecays(nuclide.decay_modes)]

\* A method called inside parse_xml_entry gave s: when it raised, the object
\* stays as self, with what was assigned before.
Keep(self, s) == IF s.exc # "" THEN RaiseWith(s.exc, self) ELSE s

\* self.<attr> = x inside parse_xml_entry
AssignKeep(r, attr, x) ==
    IF r.exc # "" THEN r ELSE Keep(r.val, Assign(r, attr, x))

\* Nuclide.py:706-731: self.add_isomer(i_data) for the isomer elements from
\* index i on.
RECURSIVE ParseIsomers(_, _, _, _)
ParseIsomers(r, nuclide, isomers, i) ==
    IF r.exc # "" \/ i > Len(isomers) THEN r
    ELSE ParseIsomers(Keep(r.val, add_isomer(r.val,
                                      ReadIsomer(nuclide, isomers[i]))),
                      nuclide, isomers, i + 1)

\* NuclideXml.parse_xml_entry on object self: A, then Z, then the
\* sub-records, then the isomers. The raised result carries the object as
\* the raise left it.
parse_xml_entry(self, nuclide) ==
    ParseIsomers(
        AssignKeep(AssignKeep(AssignKeep(AssignKeep(AssignKeep(AssignKeep(
            Ok(self),
            "A", getAttribute(nuclide, "A")),
            "Z", getAttribute(nuclide, "Z")),
            "mass_defect",
                <<ReadAttributes(nuclide.mass_defect, mass_defect_keys)>>),
            "half_life",
                <<ReadAttributes(nuclide.half_life, half_life_keys)>>),
            "gs_spin", <<ReadAttributes(nuclide.spin, gs_spin_keys)>>),
            "decay_modes", <<ReadDecays(nuclide.decay_modes)>>),
        nuclide,
        IF Len(nuclide.isomers) > 0 THEN nuclide.isomers[1] ELSE <<>>,
        1)

\* A constructor whose body gave s: a raise leaves no object.
NoObject(s) == IF s.exc # "" THEN Raise(s.exc) ELSE s

\* Nuclide.py:658-659: the element, when given, is parsed into the object
\* that super().__init__ gave.
ParseInto(r, xml_nuclide_entry) ==
    IF r.exc # "" THEN Raise(r.exc)
    ELSE IF xml_nuclide_entry = <<>> THEN r
    ELSE NoObject(parse_xml_entry(r.val, xml_nuclide_entry[1]))

\* NuclideXml.__init__
NuclideXml(Z, A, xml_nuclide_entry) ==
    ParseInto(Nuclide(Z, A, <<>>, <<>>, <<>>, <<>>, <<>>, <<>>),
              xml_nuclide_entry)

\* search.py:18-23: A and Z are read from the element with int(), and the
\* entity is built from the element.
load_nuclide(nuclide) ==
    LET A == int(getAttribute(nuclide, "A"))
        Z == int(getAttribute(nuclide, "Z"))
    IN  IF A.exc # "" THEN Raise(A.exc)
        ELSE IF Z.exc # "" THEN Raise(Z.exc)
        ELSE NuclideXml(PyInt(Z.val), PyInt(A.val), <<nuclide>>)

\* The entities handed to the encoder: every sub-record with its full key
\* set, the flags as the converters store them (bool) or as text, up to two
\* decay modes, at most one isomer with a decay mode of its own.
XmlFlags == {PyBool(FALSE), PyBool(TRUE), PyStr("False")}

XmlDecayMode(mode) ==
    [mode |-> PyStr(mode), relation |-> PyStr("="), value |-> PyStr("100"),
     uncertainity |-> PyStr("?")]

XmlHalfLife(flag) ==
    [value |-> PyStr("1"), unit |-> PyStr("s"), uncertainity |-> PyStr("?"),
     relation |-> PyStr("="), extrapolated |-> flag]

XmlIsomer(flag) ==
    [energy |-> PyStr("50"), uncertainity |-> PyStr("5"), extrapolated |-> flag,
     half_life |-> XmlHalfLife(flag), decay_modes |-> <<XmlDecayMode("it")>>,
     comment |-> "iso"]

XmlEntities ==
    {Nuclide(PyInt(za[1]), PyInt(za[2]),
             <<[value |-> PyStr("1000"), uncertainity |-> PyStr("5"),
                extrapolated |-> flag]>>,
             <<XmlHalfLife(flag)>>,
             <<[value |-> PyStr("1/2+"), extrapolated |-> flag]>>,
             <<dms>>,
             <<IF isomeric THEN <<XmlIsomer(flag)>> ELSE <<>>>>,
             <<comment>>).val :
        za \in {<<0, 0>>, <<1, 1>>, <<1, 2>>},
        flag \in XmlFlags,
        dms \in {<<>>, <<XmlDecayMode("b-")>>,
                 <<XmlDecayMode("b-"), XmlDecayMode("a")>>},
        isomeric \in BOOLEAN,
        comment \in {"", "ref"}}

XmlInit ==
    /\ orig \in {<<e>> : e \in XmlEntities}
    /\ entry = <<>>
    /\ decoded = <<>>
    /\ reencoded = <<>>
    /\ EntIdle
    /\ ParseIdle
    /\ RefIdle
    /\ pc = "idle"
    /\ line_number = 0
    /\ first = TRUE
    /\ data = <<>>
    /\ previous = <<>>
    /\ isotope = 0
    /\ decay_mode = <<>>
    /\ heap = <<>>
    /\ log = <<>>
    /\ outfile = <<>>
    /\ last = [case |-> "init", exc |-> "", row |-> <<>>]

\* Nwc2xml.py:191-193: isotope.add_to_xml_table(table, root)
Encode ==
    /\ entry = <<>>
    /\ entry' = <<add_to_xml_table(orig[1])>>
    /\ UNCHANGED <<orig, decoded, reencoded, notXml>>

\* search.py:18-23: the entity is loaded from the element.
Decode ==
    /\ entry # <<>>
    /\ decoded = <<>>
    /\ decoded' = <<load_nuclide(entry[1])>>
    /\ UNCHANGED <<orig, entry, reencoded, notXml>>

\* add_to_xml_table on an entity whose isomers may lack the key 'comment':
\* state['comment'] (Nuclide.py:334) then raises KeyError.
TryAddToXmlTable(self) ==
    IF \E i \in DOMAIN self.isomers : "comment" \notin DOMAIN self.isomers[i]
    THEN Raise("KeyError")
    ELSE Ok(add_to_xml_table(self))

\* The decoded entity is written to a table again.
Reencode ==
    /\ decoded # <<>>
    /\ decoded[1].exc = ""
    /\ reencoded = <<>>
    /\ reencoded' = <<TryAddToXmlTable(decoded[1].val)>>
    /\ UNCHANGED <<orig, entry, decoded, notXml>>

XmlNext ==
    \/ Encode
    \/ Decode
    \/ Reencode

SpecXml == XmlInit /\ [][XmlNext]_vars

----------------------------------------------------------------------------
(* The entity under its callers: construction, assignment to Z and A, and   *)
(* decoding an element into it (Nuclide.py:99-161, 648-671).                *)

\* The Python values a caller hands in as Z or A: ints, and strings as
\* getAttribute and the fixed-width columns give them.
PyValues ==
    {PyInt(0 - 1), PyInt(0), PyInt(1), PyInt(5), PyStr("0"), PyStr("5"),
     PyStr("abc")}

\* The nuclide elements a document may hold: the sub-records of a well-formed
\* entry, under the A and Z attributes a document can carry.
XmlEntries ==
    {[add_to_xml_table(CHOOSE e \in XmlEntities :
                           e.decay_modes = <<>> /\ e.isomers = <<>>)
          EXCEPT !.A = az[1], !.Z = az[2]] :
        az \in {<<"1", "1">>, <<"0", "5">>, <<"0", "0">>, <<"abc", "1">>}}

EntInit ==
    /\ EntIdle
    /\ ParseIdle
    /\ RefIdle
    /\ XmlIdle
    /\ pc = "idle"
    /\ line_number = 0
    /\ first = TRUE
    /\ data = <<>>
    /\ previous = <<>>
    /\ isotope = 0
    /\ decay_mode = <<>>
    /\ heap = <<>>
    /\ log = <<>>
    /\ outfile = <<>>
    /\ last = [case |-> "init", exc |-> "", row |-> <<>>]

\* ent = Nuclide(Z, A): a raise leaves no entity.
Construct(Z, A) ==
    /\ LET r == Nuclide(Z, A, <<>>, <<>>, <<>>, <<>>, <<>>, <<>>) IN
       /\ ent' = IF r.exc = "" THEN <<r.val>> ELSE <<>>
       /\ elast' = [op |-> "init", Z |-> <<Z>>, A |-> <<A>>, exc |-> r.exc]
    /\ UNCHANGED <<given, notEnt>>

\* ent.Z = Z: a raise leaves the entity as it was.
AssignZ(Z) ==
    /\ ent # <<>>
    /\ LET r == Z_setter(ent[1], Z) IN
       /\ ent' = IF r.exc = "" THEN <<r.val>> ELSE ent
       /\ elast' = [op |-> "Z", Z |-> <<Z>>, A |-> <<>>, exc |-> r.exc]
    /\ UNCHANGED <<given, notEnt>>

\* ent.A = A
AssignA(A) ==
    /\ ent # <<>>
    /\ LET r == A_setter(ent[1], A) IN
       /\ ent' = IF r.exc = "" THEN <<r.val>> ELSE ent
       /\ elast' = [op |-> "A", Z |-> <<>>, A |-> <<A>>, exc |-> r.exc]
    /\ UNCHANGED <<given, notEnt>>

\* ent.parse_xml_entry(nuclide) (ChartDrawer.py:143): a raise leaves the
\* entity with what was assigned before it.
ParseXmlEntry(nuclide) ==
    /\ ent # <<>>
    /\ LET r == parse_xml_entry(ent[1], nuclide) IN
       /\ ent' = <<r.val>>
       /\ elast' = [op |-> "parse", Z |-> <<PyStr(nuclide.Z)>>,
                    A |-> <<PyStr(nuclide.A)>>, exc |-> r.exc]
    /\ UNCHANGED <<given, notEnt>>

EntNext ==
    \/ \E Z \in PyValues, A \in PyValues : Construct(Z, A)
    \/ \E Z \in PyValues : AssignZ(Z)
    \/ \E A \in PyValues : AssignA(A)
    \/ \E nuclide \in XmlEntries : ParseXmlEntry(nuclide)

SpecEntity == EntInit /\ [][EntNext]_vars

----------------------------------------------------------------------------
(* The sub-records of an entity under its callers: the three sub-record     *)
(* setters and the three append operations (Nuclide.py:175-275), on an      *)
(* entity that was built with full sub-records.                             *)

\* The most decay modes a list may hold, and the most isomers an entity may
\* hold, before the callers stop appending.
MaxModes == 2
MaxIsomers == 2

\* d without key k: a dict for which d.get(k) is None
Without(d, k) == [x \in DOMAIN d \ {k} |-> d[x]]

\* d, and d without one of its keys
OrWithoutOne(d) == {d} \cup {Without(d, k) : k \in DOMAIN d}

SubMassDefect(value) ==
    [value |-> value, uncertainity |-> "5", extrapolated |-> FALSE]

SubHalfLife(value) ==
    [value |-> value, unit |-> "s", uncertainity |-> "?", relation |-> "=",
     extrapolated |-> FALSE]

SubSpin(value) == [value |-> value, extrapolated |-> FALSE]

SubDecayMode(mode) ==
    [mode |-> mode, relation |-> "=", value |-> "100", uncertainity |-> "?"]

SubIsomer(half_life, decay_modes) ==
    [energy |-> "50", uncertainity |-> "?", extrapolated |-> FALSE,
     half_life |-> half_life, decay_modes |-> decay_modes, comment |-> "iso"]

\* The structures the callers hand in: complete, or lacking one key; an
\* isomer may lack one of its own keys, one key of its half-life, or one key
\* of its only decay mode.
SubMassDefects == OrWithoutOne(SubMassDefect("2000"))
SubHalfLives == OrWithoutOne(SubHalfLife("2"))
SubSpins == OrWithoutOne(SubSpin("0+"))
SubDecayModes == OrWithoutOne(SubDecayMode("it"))
SubIsomers ==
    OrWithoutOne(SubIsomer(SubHalfLife("1"), <<SubDecayMode("it")>>))
    \cup {SubIsomer(hl, <<>>) : hl \in OrWithoutOne(SubHalfLife("2"))}
    \cup {SubIsomer(SubHalfLife("2"), <<dm>>) : dm \in OrWithoutOne(SubDecayMode("it"))}

SubInit ==
    /\ ent \in {<<Nuclide(PyInt(1), PyInt(1), <<SubMassDefect("1000")>>,
                          <<SubHalfLife("1")>>, <<SubSpin("1/2+")>>,
                          <<<<SubDecayMode("b-")>>>>, <<isomers>>, <<>>).val>> :
                   isomers \in {<<>>, <<SubIsomer(SubHalfLife("1"), <<>>)>>}}
    /\ elast = [op |-> "none", Z |-> <<>>, A |-> <<>>, exc |-> ""]
    /\ given = <<>>
    /\ XmlIdle
    /\ ParseIdle
    /\ RefIdle
    /\ pc = "idle"
    /\ line_number = 0
    /\ first = TRUE
    /\ data = <<>>
    /\ previous = <<>>
    /\ isotope = 0
    /\ decay_mode = <<>>
    /\ heap = <<>>
    /\ log = <<>>
    /\ outfile = <<>>
    /\ last = [case |-> "init", exc |-> "", row |-> <<>>]

\* The entity after a method gave r: a raise leaves it as the method left it,
\* which for these methods is as it was.
Called(op, structure, r) ==
    /\ ent' = IF r.exc = "" THEN <<r.val>> ELSE ent
    /\ elast' = [op |-> op, Z |-> <<>>, A |-> <<>>, exc |-> r.exc]
    /\ given' = structure
    /\ UNCHANGED notEnt

\* ent.mass_defect = mass_defect
SetMassDefect(mass_defect) ==
    Called("mass_defect", <<mass_defect>>,
           mass_defect_setter(ent[1], <<mass_defect>>))

\* ent.half_life = half_life
SetHalfLife(half_life) ==
    Called("half_life", <<half_life>>, half_life_setter(ent[1], <<half_life>>))

\* ent.gs_spin = gs_spin
SetGsSpin(gs_spin) ==
    Called("gs_spin", <<gs_spin>>, gs_spin_setter(ent[1], <<gs_spin>>))

\* ent.add_decay_mode(decay_mode)
AddDecayMode(dm) ==
    /\ Len(ent[1].decay_modes) < MaxModes
    /\ Called("add_decay_mode", <<dm>>, add_decay_mode(ent[1], dm))

\* ent.add_isomer(isomer)
AddIsomer(isomer) ==
    /\ Len(ent[1].isomers) < MaxIsomers
    /\ Called("add_isomer", <<isomer>>, add_isomer(ent[1], isomer))

\* ent.add_isomer_decay_mode(isomer_index, decay_mode), with the index the
\* merger passes (Nwc2xml.py:133) or an index from 0.
AddIsomerDecayMode(isomer_index, dm) ==
    /\ isomer_index < Len(ent[1].isomers)
    /\ isomer_index >= 0 =>
           Len(ent[1].isomers[isomer_index + 1].decay_modes) < MaxModes
    /\ isomer_index < 0 /\ Len(ent[1].isomers) > 0 =>
           Len(Last(ent[1].isomers).decay_modes) < MaxModes
    /\ Called("add_isomer_decay_mode", <<dm, isomer_index>>,
              add_isomer_decay_mode(ent[1], isomer_index, dm))

\* The lists assigned to decay_modes: valid ones, and ones with an entry that
\* lacks 'mode', first or after a valid entry.
SubDecayModeLists ==
    {<<>>, <<SubDecayMode("it")>>, <<SubDecayMode("it"), SubDecayMode("a")>>,
     <<Without(SubDecayMode("it"), "mode")>>,
     <<SubDecayMode("it"), Without(SubDecayMode("a"), "mode")>>}

\* ent.decay_modes = decay_modes: r carries the entity as the setter left it.
SetDecayModes(decay_modes) ==
    /\ ent' = <<decay_modes_setter(ent[1], <<decay_modes>>).val>>
    /\ elast' = [op |-> "decay_modes", Z |-> <<>>, A |-> <<>>,
                 exc |-> decay_modes_setter(ent[1], <<decay_modes>>).exc]
    /\ given' = <<decay_modes>>
    /\ UNCHANGED notEnt

SubNext ==
    \/ \E md \in SubMassDefects : SetMassDefect(md)
    \/ \E dms \in SubDecayModeLists : SetDecayModes(dms)
    \/ \E hl \in SubHalfLives : SetHalfLife(hl)
    \/ \E sp \in SubSpins : SetGsSpin(sp)
    \/ \E dm \in SubDecayModes : AddDecayMode(dm)
    \/ \E isomer \in SubIsomers : AddIsomer(isomer)
    \/ \E i \in (0 - 1)..(MaxIsomers - 1), dm \in SubDecayModes :
           AddIsomerDecayMode(i, dm)

SpecSub == SubInit /\ [][SubNext]_vars

----------------------------------------------------------------------------
(* The NuBase12 field parsers as functions of one field: _parse_half_life   *)
(* on the tokens of a half-life field, _parse_decay_modes on the characters *)
(* of a decay-modes field, called directly or on the field as the converter *)
(* hands it over, lower-cased (Nubase12_2xml.py:103).                       *)

ParseUnits ==
    short_time_units \cup long_time_units \cup {"Xy", "S", "MS"}

\* Half-life fields: no token, a keyword, one token, two, three and four.
HalfLifeFields ==
    {<<>>, <<"stbl">>, <<"p-unst">>, <<"n-unst">>, <<"12.3">>,
     <<"12.3", "ms", "5", "7">>, <<"stbl", "ms">>}
    \cup {<<"12.3", u>> : u \in ParseUnits}
    \cup {<<"12.3", u, "5">> : u \in ParseUnits}

DecayModeNames == {<<"A">>, <<"B", "-">>, <<"s", "f">>}

\* The spellings of the two relations written in letters.
LetterRelations ==
    {<<"L", "E">>, <<"l", "e">>, <<"L", "e">>, <<"l", "E">>,
     <<"G", "E">>, <<"g", "e">>, <<"G", "e">>, <<"g", "E">>}

\* "<mode> <relation> <value>"
SpacedExpression(mode, relation, value) ==
    mode \o <<" ">> \o relation \o <<" ">> \o value

\* Decay-modes fields: relations in letters, unknown values written with
\* and without "=", and fields with no, one and several relation characters
\* in their expressions.
DecayModesFields ==
    {SpacedExpression(<<"s", "f">>, r, <<"5">>) : r \in LetterRelations}
    \cup {m \o <<" ", "?">> : m \in DecayModeNames}
    \cup {m \o <<"=", " ", "?">> : m \in DecayModeNames}
    \cup {m \o <<"=", "5", " ", "?">> : m \in DecayModeNames}
    \cup {m \o <<"=", "5">> : m \in DecayModeNames}
    \cup {<<>>, <<" ">>, <<"A">>, <<"A", " ", "5">>, <<"A", "=">>,
          <<"A", "~", "5">>, <<"A", "=", "5", "=", "2">>,
          <<"A", "<", "=", "5">>, <<"A", "<", " ", "?">>,
          <<"A", "=", ";", "B">>, <<"A", "=", "5", ";", "B">>,
          <<"A", "=", "5", ";", "B", "-", "=", "2">>,
          <<"A", " ", "?", ";", "B", "-", " ", "?">>,
          <<"A", "=", "5", " ", "2", ";", "B", "-", "=", "2">>,
          <<"B", "-", "=", "2", ";", "A", "~", "5", ";", "s", "f", "<", "1">>}

\* Mass-defect fields: blank, one to four tokens, with and without the
\* extrapolation mark, with a token float() rejects.
MassDefectFields ==
    {<<>>, <<"#">>, <<"1.5">>, <<"1.5#">>, <<"abc">>,
     <<"1.5", "0.2">>, <<"1.5#", "0.2">>, <<"1.5", "abc">>, <<"abc", "0.2">>,
     <<"1.5", "0.2", "5">>, <<"1.5#", "0.2", "5">>, <<"1.5", "0.2", "abc">>,
     <<"1.5", "0.2", "5", "1">>}

\* Wallet-card half-life fields: widths in eV, keV and MeV in upper, lower
\* and mixed case, time units, an unknown unit; no token, one, two and four.
NwcHalfLifeFields ==
    {<<v, u, e>> : v \in {"1", "100"},
                   u \in {"EV", "KEV", "MEV", "ev", "kev", "mev", "eV", "keV",
                          "MeV", "S", "MS", "XX"},
                   e \in {"5", "AP"}}
    \cup {<<>>, <<"STABLE">>, <<"1", "S">>, <<"100", "KEV">>,
          <<"1", "S", "5", "5">>}

ParseInit ==
    /\ parse_in \in [fn : {"half_life"}, arg : HalfLifeFields]
                    \cup [fn : {"decay_modes"}, arg : DecayModesFields]
                    \cup [fn : {"mass_defect"}, arg : MassDefectFields]
                    \cup [fn : {"nwc_half_life"}, arg : NwcHalfLifeFields]
    /\ parse_out = <<>>
    /\ EntIdle
    /\ XmlIdle
    /\ RefIdle
    /\ pc = "idle"
    /\ line_number = 0
    /\ first = TRUE
    /\ data = <<>>
    /\ previous = <<>>
    /\ isotope = 0
    /\ decay_mode = <<>>
    /\ heap = <<>>
    /\ log = <<>>
    /\ outfile = <<>>
    /\ last = [case |-> "init", exc |-> "", row |-> <<>>]

\* self._parse_half_life(half_life)
ParseHalfLife ==
    /\ parse_in.fn = "half_life"
    /\ parse_out = <<>>
    /\ parse_out' = <<[via |-> "call", r |-> _parse_half_life(parse_in.arg)]>>
    /\ UNCHANGED <<parse_in, convVars, entVars, xmlVars, refVars>>

\* isotope.nwc_parse_half_life(half_life)
ParseNwcHalfLife ==
    /\ parse_in.fn = "nwc_half_life"
    /\ parse_out = <<>>
    /\ parse_out' = <<[via |-> "call", r |-> nwc_parse_half_life(parse_in.arg)]>>
    /\ UNCHANGED <<parse_in, convVars, entVars, xmlVars, refVars>>

\* self._parse_mass_defect(mass_defect)
ParseMassDefect ==
    /\ parse_in.fn = "mass_defect"
    /\ parse_out = <<>>
    /\ parse_out' = <<[via |-> "call", r |-> _parse_mass_defect(parse_in.arg)]>>
    /\ UNCHANGED <<parse_in, convVars, entVars, xmlVars, refVars>>

\* self._parse_decay_modes(decay_modes), on the field as it is
ParseDecayModes ==
    /\ parse_in.fn = "decay_modes"
    /\ parse_out = <<>>
    /\ parse_out' = <<[via |-> "call", r |-> _parse_decay_modes(parse_in.arg)]>>
    /\ UNCHANGED <<parse_in, convVars, entVars, xmlVars, refVars>>

\* Nubase12_2xml.py:103, 110-114: the converter lower-cases the field, then
\* the constructor or nb_add_isomer parses it.
ParseDecayModesField ==
    /\ parse_in.fn = "decay_modes"
    /\ parse_out = <<>>
    /\ parse_out' = <<[via |-> "field",
                       r |-> _parse_decay_modes(LowerChars(parse_in.arg))]>>
    /\ UNCHANGED <<parse_in, convVars, entVars, xmlVars, refVars>>

ParseNext ==
    \/ ParseHalfLife
    \/ ParseMassDefect
    \/ ParseNwcHalfLife
    \/ ParseDecayModes
    \/ ParseDecayModesField

SpecParse == ParseInit /\ [][ParseNext]_vars

----------------------------------------------------------------------------
(* The entities of one run as Python objects: an entity holds references to *)
(* two list objects, _decay_modes and isomers. lists is the store of list   *)
(* objects, a reference is an index into it, objs are the entities in the   *)
(* order of their creation. Two entities holding the same reference share   *)
(* one list.                                                                *)

MaxEntities == 2

notRef == <<convVars, entVars, xmlVars, parseVars>>

\* The default of Nuclide.__init__ as its docstring warns against: one list
\* for every entity that is given none (the list the first entity got).
IsomersOf_Shared(isomers, fresh) ==
    IF isomers = 0 THEN (IF fresh > 2 THEN 2 ELSE fresh) ELSE isomers

\* Nuclide.py:112-115: isomers is None (0) gives the new list [], else the
\* list that was passed.
IsomersOf(isomers, fresh) ==
    IF isomers = 0 THEN fresh ELSE isomers

\* Nuclide.__init__ on the store ls: the decay_modes setter binds
\* _decay_modes to a new list and appends the modes given; isomers is bound
\* as IsomersOf says. The result is the store and the new entity.
RefNuclide(ls, decay_modes, isomers) ==
    [lists |-> IF isomers = 0 THEN Append(Append(ls, decay_modes), <<>>)
               ELSE Append(ls, decay_modes),
     obj |-> [decay_modes |-> Len(ls) + 1,
              isomers |-> IsomersOf(isomers, Len(ls) + 2)]]

\* The decay_modes setter on an entity n.obj in store n.lists: a new list.
RefSetDecayModes(n, decay_modes) ==
    [lists |-> Append(n.lists, decay_modes),
     obj |-> [n.obj EXCEPT !.decay_modes = Len(n.lists) + 1]]

\* NuclideNb03.__init__: super().__init__(Z, A), then the parsed decay
\* modes are assigned: the list of the base constructor is dropped.
RefNuclideNb03(ls, decay_modes) ==
    RefSetDecayModes(RefNuclide(ls, <<>>, 0), decay_modes)

\* The decay modes and the isomers of entity j, by value.
DecayModesOf(ls, os, j) == ls[os[j].decay_modes]

IsomersOfEntity(ls, os, j) == ls[os[j].isomers]

RefModeLists == {<<>>, <<"b-">>}

RefInit ==
    /\ RefIdle
    /\ EntIdle
    /\ XmlIdle
    /\ ParseIdle
    /\ pc = "idle"
    /\ line_number = 0
    /\ first = TRUE
    /\ data = <<>>
    /\ previous = <<>>
    /\ isotope = 0
    /\ decay_mode = <<>>
    /\ heap = <<>>
    /\ log = <<>>
    /\ outfile = <<>>
    /\ last = [case |-> "init", exc |-> "", row |-> <<>>]

Bound(n, op) ==
    /\ lists' = n.lists
    /\ objs' = Append(objs, n.obj)
    /\ rlast' = [op |-> op, obj |-> Len(objs) + 1]
    /\ UNCHANGED notRef

\* isotope = NuclideNwc11(Z, A, mass_defect, half_life, gs_spin, decay_modes,
\* comment): the base constructor with isomers=None.
CreateNwc ==
    /\ Len(objs) < MaxEntities
    /\ \E decay_modes \in RefModeLists :
          Bound(RefNuclide(lists, decay_modes, 0), "NuclideNwc11")

\* isotope = NuclideNb03(Z, A, mass_defect, half_life, gs_spin, decay_modes,
\* comment)
CreateNb ==
    /\ Len(objs) < MaxEntities
    /\ \E decay_modes \in RefModeLists :
          Bound(RefNuclideNb03(lists, decay_modes), "NuclideNb03")

\* objs[j].add_decay_mode(decay_mode): self._decay_modes.append(decay_mode)
AppendDecayMode ==
    \E j \in DOMAIN objs :
        /\ Len(lists[objs[j].decay_modes]) < MaxModes
        /\ lists' = [lists EXCEPT ![objs[j].decay_modes] = Append(@, "a")]
        /\ rlast' = [op |-> "add_decay_mode", obj |-> j]
        /\ UNCHANGED <<objs, notRef>>

\* objs[j].add_isomer(isomer): self.isomers.append(isomer)
AppendIsomer ==
    \E j \in DOMAIN objs :
        /\ Len(lists[objs[j].isomers]) < MaxIsomers
        /\ lists' = [lists EXCEPT ![objs[j].isomers] = Append(@, "m")]
        /\ rlast' = [op |-> "add_isomer", obj |-> j]
        /\ UNCHANGED <<objs, notRef>>

RefNext ==
    \/ CreateNwc
    \/ CreateNb
    \/ AppendDecayMode
    \/ AppendIsomer

SpecRef == RefInit /\ [][RefNext]_vars

----------------------------------------------------------------------------
(* The wallet-card loop on list objects: the list decay_modes a row builds  *)
(* (Nwc2xml.py:78-117) is handed to the constructor and is also stored in   *)
(* the isomer dict of the row (Nwc2xml.py:150-156, 159-165). An isomer is   *)
(* written as the reference to its decay-mode list.                         *)

\* The decay-mode list of a constructor that keeps the list it is handed.
SetterList_Alias(passed, fresh) == passed

\* Nuclide.py:234: self._decay_modes = [], a new list whatever is assigned.
SetterList(passed, fresh) == fresh

\* Nuclide.__init__ with decay_modes the list object handed in and isomers=None:
\* the setter fills its list with the entries of that list.
RefNuclideGiven(ls, passed) ==
    [lists |-> Append(Append(ls, ls[passed]), <<>>),
     obj |-> [decay_modes |-> SetterList(passed, Len(ls) + 1),
              isomers |-> Len(ls) + 2]]

\* isotope.add_isomer(isomer_data) with isomer_data['decay_modes'] the list
\* object passed.
RefAddIsomer(n, passed) ==
    [lists |-> [n.lists EXCEPT ![n.obj.isomers] = Append(@, [decay_modes |-> passed])],
     obj |-> n.obj]

\* The lists decay_modes of a row: the '?' placeholder or one decay mode.
NwcModeLists == {<<"?">>, <<"b-">>}

\* One row has been handled: the store is ls, the entities are os.
RefRow(ls, os, case) ==
    /\ line_number' = line_number + 1
    /\ lists' = ls
    /\ objs' = os
    /\ rlast' = [op |-> case, obj |-> Len(os)]
    /\ UNCHANGED <<pc, first, data, previous, isotope, decay_mode, heap, log,
                   outfile, last>>
    /\ UNCHANGED <<entVars, xmlVars, parseVars>>

\* Nwc2xml.py:128-130: isotope.add_decay_mode(decay_mode)
RowCase1 ==
    /\ line_number < MaxLines
    /\ objs # <<>>
    /\ RefRow([lists EXCEPT ![Last(objs).decay_modes] = Append(@, "a")],
              objs, "1")

\* Nwc2xml.py:131-134: isotope.add_isomer_decay_mode(isomer_index,
\* decay_mode) appends to the list the last isomer refers to.
RowCase2 ==
    /\ line_number < MaxLines
    /\ objs # <<>>
    /\ lists[Last(objs).isomers] # <<>>
    /\ RefRow([lists EXCEPT ![Last(lists[Last(objs).isomers]).decay_modes]
                                = Append(@, "a")],
              objs, "2")

\* Nwc2xml.py:137-156: a new entity from an isomer-flagged row, with the row
\* added as its first isomer.
RowCase3a ==
    /\ line_number < MaxLines
    /\ \E dms \in NwcModeLists :
          RefRow(RefAddIsomer(RefNuclideGiven(Append(lists, dms), Len(lists) + 1),
                              Len(lists) + 1).lists,
                 Append(objs, RefNuclideGiven(Append(lists, dms),
                                              Len(lists) + 1).obj),
                 "3a")

\* Nwc2xml.py:157-165: the row is added as an isomer of the current entity.
RowCase3b ==
    /\ line_number < MaxLines
    /\ objs # <<>>
    /\ \E dms \in NwcModeLists :
          RefRow(RefAddIsomer([lists |-> Append(lists, dms), obj |-> Last(objs)],
                              Len(lists) + 1).lists,
                 objs, "3b")

\* Nwc2xml.py:166-173: a new entity from a ground-state row.
RowCase4 ==
    /\ line_number < MaxLines
    /\ \E dms \in NwcModeLists :
          RefRow(RefNuclideGiven(Append(lists, dms), Len(lists) + 1).lists,
                 Append(objs, RefNuclideGiven(Append(lists, dms),
                                              Len(lists) + 1).obj),
                 "4")

NwcRefNext ==
    \/ RowCase1
    \/ RowCase2
    \/ RowCase3a
    \/ RowCase3b
    \/ RowCase4

SpecNwcRef == RefInit /\ [][NwcRefNext]_vars

----------------------------------------------------------------------------
(* Claims about both converters *)

\* C2 (as claimed): once the input has ended and the table is written,
\* every entity created from an accepted record is in the output sequence.
C2_EveryEntityIsEmitted ==
    pc = "written" => \A id \in DOMAIN heap : id \in Range(data)

\* C4 (as claimed): no step changes the decay modes or the isomers of an
\* entity that is already in the output sequence.
C4_FinalizedEntitiesAreFrozen ==
    [][\A i \in DOMAIN data :
           /\ heap'[data[i]].decay_modes = heap[data[i]].decay_modes
           /\ heap'[data[i]].isomers = heap[data[i]].isomers]_vars

----------------------------------------------------------------------------
(* Claims about the wallet-card merger *)

\* C3 (as claimed): a record rejected with ParameterError leaves the current
\* entity, the entities built so far, the output sequence and the
\* previous-identity snapshot exactly as they were before that record.
C3_RejectedRecordChangesNothing ==
    [][last'.exc = "ParameterError"
         => /\ isotope' = isotope
            /\ heap' = heap
            /\ data' = data
            /\ previous' = previous]_vars

\* C5 (as claimed): a run aborted by a row too short for a mandatory column
\* still yields its output, the entities accepted before that row.
C5_AbortedRunYieldsOutput ==
    last.case = "short" => outfile = <<Serialized(data, heap)>>

\* C6 (as claimed): a non-isomer row with the identity of the previous
\* accepted record creates no entity and appends to the ground-state decay
\* modes of the current entity exactly one decay mode, the one built from the
\* row's own decay-mode code, relation and branch.
C6_ContinuationAppendsOwnDecayMode ==
    [][last'.case = "1"
         => /\ last'.exc = ""
            /\ Len(heap') = Len(heap)
            /\ isotope' = isotope
            /\ data' = data
            /\ heap'[isotope].decay_modes =
                   Append(heap[isotope].decay_modes, NwcDecayMode(last'.row[1]))]_vars

\* C7 (as claimed): an accepted isomer-flagged row with the A and Z of the
\* previous accepted record and a different identity appends exactly one
\* isomer built from this row to the current entity, creates no entity, and
\* leaves the output sequence, as it will be serialized, and the ground-state
\* decay modes as they were.
C7_IsomerRowAppendsOneIsomer ==
    [][(last'.case = "3b" /\ last'.exc = "")
         => LET row == last'.row[1]
                old == heap[isotope]
                new == heap'[isotope]
            IN  /\ isotope' = isotope
                /\ Len(heap') = Len(heap)
                /\ Serialized(data', heap') = Serialized(data, heap)
                /\ new.decay_modes = old.decay_modes
                /\ Len(new.isomers) = Len(old.isomers) + 1
                /\ SubSeq(new.isomers, 1, Len(old.isomers)) = old.isomers
                /\ Last(new.isomers).energy = row.isomer_excitation
                /\ Last(new.isomers).half_life.value = Lower(row.half_life[1])
                /\ Last(new.isomers).half_life.unit = Lower(row.half_life[2])
                /\ Last(new.isomers).decay_modes = NwcDecayModes(row)
                /\ Last(new.isomers).comment = row.comment]_vars

\* C8 (as claimed): an accepted isomer-flagged row whose A or Z differs from
\* the previous accepted record leaves the entity that was current, if there
\* was one, exactly once in the output sequence, and makes current a new
\* entity whose ground state is this row and whose only isomer is this row.
C8_IsomerRowOfNewNuclide ==
    [][(last'.case = "3a" /\ last'.exc = "")
         => LET row == last'.row[1]
                new == heap'[isotope']
            IN  /\ isotope # 0 =>
                       Cardinality({i \in DOMAIN data' : data'[i] = isotope}) = 1
                /\ isotope' = Len(heap) + 1
                /\ Len(heap') = Len(heap) + 1
                /\ new.Z = row.Z
                /\ new.A = row.A
                /\ new.mass_defect.value = row.mass
                /\ new.half_life.value = Lower(row.half_life[1])
                /\ new.decay_modes = NwcDecayModes(row)
                /\ Len(new.isomers) = 1
                /\ new.isomers[1].energy = row.isomer_excitation
                /\ new.isomers[1].half_life = new.half_life
                /\ new.isomers[1].decay_modes = NwcDecayModes(row)]_vars

----------------------------------------------------------------------------
(* Claims about the XML codec *)

\* C1 (as claimed): decoding the element that add_to_xml_table made of an
\* entity with full sub-records yields an entity equal to it field for field
\* and order for order: Z, A, mass_defect, half_life, spin, the decay modes,
\* the isomers and the comment.
C1_RoundTrip ==
    decoded # <<>> =>
        /\ decoded[1].exc = ""
        /\ LET d == decoded[1].val
               e == orig[1]
           IN  /\ d.Z = e.Z
               /\ d.A = e.A
               /\ d.mass_defect = e.mass_defect
               /\ d.half_life = e.half_life
               /\ d.gs_spin = e.gs_spin
               /\ d.decay_modes = e.decay_modes
               /\ d.isomers = e.isomers
               /\ d.comment = e.comment

----------------------------------------------------------------------------
(* Claims about the entity *)

\* C9: constructing an entity from ints or strings raises ParameterError
\* when Z is not the text of an integer, when Z < 0, or when A < 1 while Z is
\* not 0; it succeeds for A = 0, Z = 0; a construction that raised left no
\* entity.
C9_ConstructionValidates ==
    elast.op = "init" =>
        LET z == int(elast.Z[1])
            a == int(elast.A[1])
            rejected == \/ z.exc # ""
                        \/ z.exc = "" /\ z.val < 0
                        \/ z.exc = "" /\ a.exc = "" /\ a.val < 1 /\ z.val # 0
            dummy == z.exc = "" /\ a.exc = "" /\ z.val = 0 /\ a.val = 0
        IN  /\ rejected => elast.exc = "ParameterError" /\ ent = <<>>
            /\ dummy => /\ elast.exc = ""
                        /\ ent # <<>>
                        /\ ent[1].Z = 0
                        /\ ent[1].A = 0
            /\ elast.exc # "" => ent = <<>>

\* C9 witness: the construction with Z = 5, A = 0 has raised ParameterError
\* and left no entity.
C9_Witness ==
    /\ elast.op = "init"
    /\ elast.Z = <<PyInt(5)>>
    /\ elast.A = <<PyInt(0)>>
    /\ elast.exc = "ParameterError"
    /\ ent = <<>>

\* C10 (as claimed): whatever assignments to Z and A an entity has seen,
\* accepted or rejected, in any order, Z >= 0 and (A >= 1 or Z = 0).
C10_ZAndAInDomain ==
    ent # <<>> => /\ ent[1].Z >= 0
                  /\ ent[1].A >= 1 \/ ent[1].Z = 0
----------------------------------------------------------------------------
(* Claims about the sub-record operations *)

\* The required keys of the structure an operation takes.
RequiredKeys(op) ==
    CASE op = "mass_defect" -> mass_defect_keys
      [] op = "half_life" -> half_life_keys
      [] op = "gs_spin" -> gs_spin_keys
      [] OTHER -> decay_mode_keys

\* C11 (as claimed): the mass_defect, half_life and gs_spin assignments,
\* add_decay_mode and add_isomer_decay_mode, given a structure that lacks a
\* required key, raise ParameterError and no other exception, and leave the
\* entity as it was.
C11_MissingKeyIsParameterError ==
    [][(/\ elast'.op \in {"mass_defect", "half_life", "gs_spin",
                          "add_decay_mode", "add_isomer_decay_mode"}
        /\ LacksKey(given'[1], RequiredKeys(elast'.op)))
         => /\ elast'.exc = "ParameterError"
            /\ ent' = ent]_vars

\* C12 (as claimed): add_isomer, given an isomer whose half_life lacks a
\* required key or one of whose decay modes lacks a required key, raises
\* ParameterError and no other exception, and appends nothing.
C12_NestedMissingKeyIsParameterError ==
    [][(/\ elast'.op = "add_isomer"
        /\ ~LacksKey(given'[1], isomer_keys)
        /\ \/ LacksKey(given'[1].half_life, half_life_keys)
           \/ \E i \in DOMAIN given'[1].decay_modes :
                  LacksKey(given'[1].decay_modes[i], decay_mode_keys))
         => /\ elast'.exc = "ParameterError"
            /\ ent' = ent]_vars
----------------------------------------------------------------------------
(* Claims about the NuBase12 field parsers *)

\* The 21 time units the claim names.
TimeUnits21 ==
    {"d", "h", "m", "s", "ms", "us", "ns", "ps", "fs", "as", "zs", "ys",
     "Yy", "Zy", "Ey", "Py", "Ty", "Gy", "My", "ky", "y"}

\* C13 (as claimed): a half-life field of 2 or 3 tokens whose first token
\* is not a keyword parses, with relation "=" and unit token[1], exactly
\* when token[1] is one of the 21 time units; with any other token[1] it
\* raises ParameterError.
C13_HalfLifeUnitIsOneOf21 ==
    (/\ parse_out # <<>>
     /\ parse_in.fn = "half_life"
     /\ Len(parse_in.arg) \in {2, 3}
     /\ parse_in.arg[1] \notin {"stbl", "p-unst", "n-unst"})
        => LET r == parse_out[1].r IN
           IF parse_in.arg[2] \in TimeUnits21
           THEN /\ r.exc = ""
                /\ r.val.relation = "="
                /\ r.val.unit = parse_in.arg[2]
           ELSE r.exc = "ParameterError"

\* The relation sign a relation written in letters stands for.
SignOf(letters) ==
    IF LowerChars(letters) = <<"l", "e">> THEN <<"<=">> ELSE <<">=">>

\* C14 (as claimed): parsing the expression "sf <R> 5", with <R> the
\* relation LE or GE in any letter case, gives one decay mode with the
\* relation sign of <R>, the mode "sf" and the value "5".
C14_LetterRelationInAnyCase ==
    \A letters \in LetterRelations :
        (/\ parse_out # <<>>
         /\ parse_in.fn = "decay_modes"
         /\ parse_in.arg = SpacedExpression(<<"s", "f">>, letters, <<"5">>))
            => /\ parse_out[1].r.exc = ""
               /\ Len(parse_out[1].r.val) = 1
               /\ parse_out[1].r.val[1].relation = SignOf(letters)
               /\ parse_out[1].r.val[1].mode = <<"s", "f">>
               /\ parse_out[1].r.val[1].value = <<"5">>

\* The result of a successful parse with one decay mode.
OneDecayMode(mode, value, uncertainity) ==
    Ok(<<[mode |-> mode, relation |-> <<"=">>, value |-> value,
          uncertainity |-> uncertainity]>>)

\* C15: _parse_decay_modes on "<mode> ?", with no "=", gives one decay mode
\* with that mode, relation "=" and value "?"; an expression that already
\* holds an "=" ("<mode>= ?", "<mode>=5 ?") is parsed as it is written.
C15_UnknownValueGetsEqualSign ==
    \A m \in DecayModeNames :
        (/\ parse_out # <<>>
         /\ parse_in.fn = "decay_modes"
         /\ parse_out[1].via = "call")
            => /\ parse_in.arg = m \o <<" ", "?">>
                    => parse_out[1].r = OneDecayMode(m, <<"?">>, <<"0">>)
               /\ parse_in.arg = m \o <<"=", " ", "?">>
                    => parse_out[1].r = OneDecayMode(m, <<"?">>, <<"0">>)
               /\ parse_in.arg = m \o <<"=", "5", " ", "?">>
                    => parse_out[1].r = OneDecayMode(m, <<"5">>, <<"?">>)

\* Witness for C15: "B- ?" has been parsed by a direct call.
C15_Witness ==
    /\ parse_in.fn = "decay_modes"
    /\ parse_in.arg = <<"B", "-", " ", "?">>
    /\ parse_out # <<>>
    /\ parse_out[1].via = "call"
    /\ parse_out[1].r.exc = ""

\* The ';'-separated expressions of a field, with the relations written in
\* letters replaced by their signs.
ExpressionsOf(field) ==
    SplitOn(ReplacePair(ReplacePair(field, "l", "e", <<"<=">>),
                        "g", "e", <<">=">>), ";")

\* The number of relation tokens of an expression, counted after "<mode> ?"
\* has been given its "=".
RelationTokens(item) ==
    Cardinality({i \in DOMAIN item : item[i] \in Relations})
    + (IF AddsEqualSign(item) THEN 1 ELSE 0)

\* C16 (as claimed): for every non-blank field in which some expression has
\* no relation token or more than one, parsing raises ParameterError and
\* returns no list.
C16_BadExpressionIsParameterError ==
    (/\ parse_out # <<>>
     /\ parse_in.fn = "decay_modes"
     /\ Words(parse_in.arg) # <<>>
     /\ \E i \in DOMAIN ExpressionsOf(parse_in.arg) :
            RelationTokens(ExpressionsOf(parse_in.arg)[i]) # 1)
        => /\ parse_out[1].r.exc = "ParameterError"
           /\ parse_out[1].r.val = <<>>
----------------------------------------------------------------------------
(* Claims about decoded isomers *)

\* C17 (as claimed): decoding an element gives one isomer per isomer child,
\* in document order, each holding the half_life and the ordered decay modes
\* read from its own child elements, not from the ground state's.
C17_IsomerReadsOwnChildren ==
    (decoded # <<>> /\ entry[1].isomers # <<>>)
        => /\ decoded[1].exc = ""
           /\ Len(decoded[1].val.isomers) = Len(entry[1].isomers[1])
           /\ \A i \in DOMAIN entry[1].isomers[1] :
                /\ decoded[1].val.isomers[i].half_life
                     = ReadAttributes(entry[1].isomers[1][i].half_life,
                                      half_life_keys)
                /\ decoded[1].val.isomers[i].decay_modes
                     = ReadDecays(entry[1].isomers[1][i].decay_modes)
----------------------------------------------------------------------------
(* Claims about the lists of the entities *)

\* C18: every entity has its own decay-mode list and its own isomer list:
\* appending a decay mode or an isomer to one entity leaves the decay modes
\* and the isomers of every other entity of the run unchanged.
C18_AppendLeavesOtherEntities ==
    [][rlast'.op \in {"add_decay_mode", "add_isomer"}
        => \A k \in DOMAIN objs :
              k # rlast'.obj
                => /\ DecayModesOf(lists', objs', k) = DecayModesOf(lists, objs, k)
                   /\ IsomersOfEntity(lists', objs', k)
                        = IsomersOfEntity(lists, objs, k)]_vars

\* Witness for C18: an isomer has been appended to the first of two
\* entities, and the second, created after it, still has none.
C18_Witness ==
    /\ Len(objs) = 2
    /\ rlast = [op |-> "add_isomer", obj |-> 1]
    /\ IsomersOfEntity(lists, objs, 1) # <<>>
    /\ IsomersOfEntity(lists, objs, 2) = <<>>
----------------------------------------------------------------------------
(* Claims about the merge loops *)

\* C19 (as claimed): a wallet-card row flagged as isomer with the identity
\* of the previous accepted record appends exactly one decay mode to the
\* last isomer of the current entity, and leaves the number of isomers, the
\* ground-state decay modes and the output sequence as they were.
C19_IsomerContinuationAppendsDecayMode ==
    [][last'.case = "2"
         => /\ last'.exc = ""
            /\ isotope' = isotope
            /\ Len(heap') = Len(heap)
            /\ data' = data
            /\ LET old == heap[isotope]
                   new == heap'[isotope]
                   n == Len(old.isomers)
               IN  /\ n > 0
                   /\ Len(new.isomers) = n
                   /\ new.decay_modes = old.decay_modes
                   /\ \A i \in 1..(n - 1) : new.isomers[i] = old.isomers[i]
                   /\ Len(new.isomers[n].decay_modes)
                        = Len(old.isomers[n].decay_modes) + 1
                   /\ SubSeq(new.isomers[n].decay_modes, 1,
                             Len(old.isomers[n].decay_modes))
                        = old.isomers[n].decay_modes]_vars

\* C20 (as claimed): in every state of a conversion run no entity occurs
\* more than once in the output sequence, also after rejected records.
C20_NoEntityTwiceInOutput ==
    \A i, j \in DOMAIN data : i # j => data[i] # data[j]
----------------------------------------------------------------------------
(* Claims about what the NuBase12 parsers raise and return *)

\* C21 (as claimed): each NuBase12 field parser either returns a result or
\* raises ParameterError, on a blank mass-defect field and on "A=" as on any
\* other field; no other exception escapes.
C21_ParsersRaiseOnlyParameterError ==
    parse_out # <<>> => parse_out[1].r.exc \in {"", "ParameterError"}

\* C26 (as claimed): for a mass-defect field whose first token is a number,
\* extrapolated tells whether '#' occurred, the value is token[0], the
\* uncertainty is token[1] whenever there are two tokens or more and "?" with
\* one token only; a first token that is no number raises ParameterError.
C26_MassDefectUncertaintyIsSecondToken ==
    (/\ parse_out # <<>>
     /\ parse_in.fn = "mass_defect"
     /\ UnhashAll(parse_in.arg) # <<>>
     /\ \A i \in DOMAIN UnhashAll(parse_in.arg) :
            i > 1 => UnhashAll(parse_in.arg)[i] \in FloatTokens)
        => LET items == UnhashAll(parse_in.arg)
               r == parse_out[1].r
           IN  IF items[1] \notin FloatTokens THEN r.exc = "ParameterError"
               ELSE /\ r.exc = ""
                    /\ r.val.extrapolated = HasHash(parse_in.arg)
                    /\ r.val.value = items[1]
                    /\ r.val.uncertainity
                         = (IF Len(items) >= 2 THEN items[2] ELSE "?")

\* An expression as the parser splits it: "<mode> ?" with its "=".
Rewritten(item) ==
    IF AddsEqualSign(item) THEN ReplacePair(item, " ", "?", <<"=", "?">>)
    ELSE item

\* The words after the relation token of an expression that has one.
WordsAfterRelation(item) ==
    LET k == CHOOSE i \in DOMAIN Rewritten(item) : Rewritten(item)[i] \in Relations
    IN  Words(SubSeq(Rewritten(item), k + 1, Len(Rewritten(item))))

\* An expression is well formed when it has one relation token and a value
\* after it.
WellFormed(item) ==
    /\ RelationTokens(item) = 1
    /\ WordsAfterRelation(item) # <<>>

\* C27: parsing n well-formed expressions gives n entries in the order of
\* the expressions; the value of an entry is the first word after the
\* relation, its uncertainty the second word if there is one, else "0".
C27_EntriesInExpressionOrder ==
    (/\ parse_out # <<>>
     /\ parse_in.fn = "decay_modes"
     /\ Words(parse_in.arg) # <<>>
     /\ \A i \in DOMAIN ExpressionsOf(parse_in.arg) :
            WellFormed(ExpressionsOf(parse_in.arg)[i]))
        => /\ parse_out[1].r.exc = ""
           /\ Len(parse_out[1].r.val) = Len(ExpressionsOf(parse_in.arg))
           /\ \A i \in DOMAIN ExpressionsOf(parse_in.arg) :
                /\ parse_out[1].r.val[i].value
                     = WordsAfterRelation(ExpressionsOf(parse_in.arg)[i])[1]
                /\ parse_out[1].r.val[i].uncertainity
                     = (IF Len(WordsAfterRelation(ExpressionsOf(parse_in.arg)[i])) > 1
                        THEN WordsAfterRelation(ExpressionsOf(parse_in.arg)[i])[2]
                        ELSE <<"0">>)

\* Witness for C27: three expressions have been parsed into three entries.
C27_Witness ==
    /\ parse_in.fn = "decay_modes"
    /\ Len(ExpressionsOf(parse_in.arg)) = 3
    /\ parse_out # <<>>
    /\ parse_out[1].via = "call"
    /\ parse_out[1].r.exc = ""
    /\ Len(parse_out[1].r.val) = 3

\* C22 (as claimed): an entity decoded from a well-formed element, with or
\* without isomers, is encoded again without error, and the new element
\* carries the nuclide comment and the isomer comments of the element that
\* was decoded.
C22_DecodedEntityEncodesAgain ==
    reencoded # <<>>
        => /\ reencoded[1].exc = ""
           /\ reencoded[1].val.comment = entry[1].comment
           /\ Len(reencoded[1].val.isomers) = Len(entry[1].isomers)
           /\ \A k \in DOMAIN entry[1].isomers :
                /\ Len(reencoded[1].val.isomers[k]) = Len(entry[1].isomers[k])
                /\ \A i \in DOMAIN entry[1].isomers[k] :
                     reencoded[1].val.isomers[k][i].comment
                       = entry[1].isomers[k][i].comment
----------------------------------------------------------------------------
(* Claims about assigning decay modes *)

\* C23 (as claimed): assigning to decay_modes a list with an entry that
\* lacks a required key raises, and the entity's decay modes are then the
\* list it held before the assignment.
C23_FailedAssignmentKeepsDecayModes ==
    [][(/\ elast'.op = "decay_modes"
        /\ \E i \in DOMAIN given'[1] : LacksKey(given'[1][i], decay_mode_keys))
         => /\ elast'.exc = "ParameterError"
            /\ ent'[1].decay_modes = ent[1].decay_modes]_vars
----------------------------------------------------------------------------
(* Claims about the current entity of the merge loops *)

\* C24 (as claimed): the merger never uses the current entity before one
\* exists: no record is handled as a continuation or as an isomer of the
\* current entity while there is none, and reporting a rejected record does
\* not itself fail.
C24_NoUseOfMissingEntity ==
    [][line_number' = line_number + 1
         => /\ last'.case \in {"isomer", "1", "2", "3b"} => isotope # 0
            /\ last'.exc = "ParameterError" => pc' # "crashed"]_vars
----------------------------------------------------------------------------
(* Claims about the wallet-card half-life *)

\* '{0:.5f}'.format(value * 0.04562) for the values of the fields.
TimesWidthConstant(value) ==
    CASE value = "1" -> "0.04562"
      [] value = "100" -> "4.56200"
      [] OTHER -> "nan"

\* The time unit a width unit is converted to.
WidthUnitAsTime(unit) ==
    CASE Lower(unit) = "ev" -> "as"
      [] Lower(unit) = "kev" -> "zs"
      [] OTHER -> "ys"

\* C25 (as claimed): a wallet-card half-life of three tokens with a number
\* first and the unit eV, keV or MeV in any letter case parses to the unit
\* as, zs or ys and to the value multiplied by 0.04562 and formatted, not to
\* the token as it was read.
C25_WidthIsConvertedToTime ==
    (/\ parse_out # <<>>
     /\ parse_in.fn = "nwc_half_life"
     /\ Len(parse_in.arg) = 3
     /\ Lower(parse_in.arg[2]) \in {"ev", "kev", "mev"})
        => /\ parse_out[1].r.exc = ""
           /\ parse_out[1].r.val.unit = WidthUnitAsTime(parse_in.arg[2])
           /\ parse_out[1].r.val.value = TimesWidthConstant(parse_in.arg[1])
----------------------------------------------------------------------------
(* Claims about field extraction *)

\* C28 (as claimed): extracting the fields of a line shorter than a column
\* range, or with a blank A or Z column, raises nothing: the run does not end
\* at the extraction, and what fails is raised inside the try block.
C28_ShortLineDoesNotRaise ==
    last.case \in {"short", "number"} => pc # "crashed"
----------------------------------------------------------------------------
(* Claims about the isomers of the current entity *)

\* C29: whenever a wallet-card row is handled as an additional decay mode
\* of an isomer, the current entity exists and has at least one isomer, in
\* streams with rejected records as in any other.
C29_IsomerContinuationHasIsomer ==
    [][last'.case = "2"
         => /\ isotope # 0
            /\ Len(heap[isotope].isomers) >= 1]_vars

\* Witness for C29: a row has been handled as an additional decay mode of an
\* isomer in a run that rejected a record before it.
C29_Witness ==
    /\ last.case = "2"
    /\ last.exc = ""
    /\ log # <<>>
    /\ Len(heap[isotope].isomers) >= 1

\* C30: the ground-state decay modes and the decay modes of an isomer are
\* lists of their own, also for an entity made from an isomer-flagged row: a
\* decay mode appended to the last isomer does not show in the ground-state
\* decay modes, which stay as they were.
C30_IsomerModeNotInGroundState ==
    [][rlast'.op = "2"
         => lists'[Last(objs').decay_modes] = lists[Last(objs).decay_modes]]_vars

\* Witness for C30: the entity was made from an isomer-flagged row with the
\* decay mode "b-"; its first isomer has been given a second decay mode and
\* its ground state still has the one.
C30_Witness ==
    /\ rlast = [op |-> "2", obj |-> 1]
    /\ Len(lists[objs[1].isomers]) = 1
    /\ lists[objs[1].isomers][1].decay_modes < objs[1].decay_modes
    /\ lists[lists[objs[1].isomers][1].decay_modes] = <<"b-", "a">>
    /\ lists[objs[1].decay_modes] = <<"b-">>
====
